---- MODULE Spec2Model ----
(***************************************************************************)
(* Model of anthropic-proxy.                                               *)
(*                                                                         *)
(*  - Spec       the translated streaming path                             *)
(*               (OpenRouterHandler.handleStreamingRequest,                *)
(*               src/routers/openrouter.js): the loop that reads the       *)
(*               OpenAI-style delta stream line by line and writes         *)
(*               Anthropic SSE events to the client response;              *)
(*  - SpecReads  the same loop fed by reads that may cut a line in two;    *)
(*  - SpecStore  the observation store (RequestStore, src/monitor/store.js)*)
(*               under any interleaving of its operations;                 *)
(*  - SpecEvict  startRequest applied to a full store;                     *)
(*  - SpecProxy  one POST /v1/messages exchange (src/server.js and         *)
(*               src/routers/openrouter.js) in its four paths, the direct  *)
(*               streaming relay fed chunk by chunk;                       *)
(*  - SpecEvents the store with one subscriber of its events               *)
(*               (GET /api/monitor/stream, src/server.js);                 *)
(*  - SpecConfig the configuration manager (src/config/manager.js) under   *)
(*               any sequence of its operations;                           *)
(*  - SpecHeaders what the record and the logs keep of a request header    *)
(*               (src/monitor/store.js, src/server.js);                    *)
(*  - SpecFailures the error replies of translated mode                    *)
(*               (src/routers/openrouter.js);                              *)
(*  - SpecTranslate the upstream request built from a request body         *)
(*               (convertRequestInline, src/routers/openrouter.js);        *)
(*  - SpecQuery  one GET of the monitor API answered from the store        *)
(*               (getAll, src/monitor/store.js; the routes of              *)
(*               src/server.js);                                           *)
(*  - SpecRelay  the direct streaming relay (handleStreamingResponse,      *)
(*               src/server.js) with the events of the upstream body,      *)
(*               of the request and of the response in any order;          *)
(*  - SpecObserved the handlers that are not streaming while a monitor     *)
(*               connection listens to the store;                          *)
(*  - SpecLive   configuration updates and the upstream request of the     *)
(*               next POST /v1/messages;                                   *)
(*  - SpecConvert the schema cleaner and the translation of a reply that   *)
(*               is not streamed (src/routers/openrouter.js).              *)
(*                                                                         *)
(* Strings are sequences of one-character strings, so that length,         *)
(* substring and concatenation are the operations the code applies.        *)
(***************************************************************************)
EXTENDS Integers, Sequences, FiniteSets, TLC

\* Number of lines of the upstream body one request reads in the model.
MaxLines == 4

VARIABLES
    pc,                    \* position of the handler: reading / ended / failed / hung
    isSucceeded,           \* preamble (message_start + ping) written
    textBlockStarted,      \* text block opened at index 0
    encounteredToolCall,   \* a tool call was seen
    toolCallAccumulators,  \* index -> accumulated arguments string
    accumulatedContent,    \* text accumulated from delta.content
    accumulatedReasoning,  \* text accumulated from delta.reasoning
    usage,                 \* <<>> (null) or <<completion_tokens>>
    out,                   \* SSE events written to the client, in order
    reply,                 \* <<>> or <<JSON error reply>> (pre-stream failure)
    storeEnd,              \* calls made to requestStore.endRequest
    input                  \* lines consumed so far (history of the input)

vars == <<pc, isSucceeded, textBlockStarted, encounteredToolCall,
          toolCallAccumulators, accumulatedContent, accumulatedReasoning,
          usage, out, reply, storeEnd, input>>

VARIABLES
    splits                 \* lines of the upstream body that a read cut in two

VARIABLES
    store,                 \* the RequestStore: requests, maxSize, stats, events emitted
    clock,                 \* Date.now()
    storeOps               \* operations applied to the store so far

storeVars == <<store, clock, storeOps>>

VARIABLES
    proxy                  \* one POST /v1/messages exchange

----------------------------------------------------------------------------
\* The upstream lines the model draws from.

\* One entry of delta.tool_calls; arguments <<>> also stands for an absent field.
ToolCall(i, n, a) == [index |-> i, name |-> n, arguments |-> a]

\* A parsed JSON frame without an error member.  tool_calls is <<>> when the
\* member is absent and <<list>> when it is present; content and reasoning
\* are <<>> when absent or empty (both falsy); usage is <<>> or <<n>>;
\* choices is FALSE when parsed.choices[0] does not exist.
Frame(tc, c, r, u, fin, ch) ==
    [kind |-> "frame", tool_calls |-> tc, content |-> c, reasoning |-> r,
     usage |-> u, finish_reason |-> fin, choices |-> ch]

DoneLine  == [kind |-> "done"]
SkipLine  == [kind |-> "skip"]
ErrorLine == [kind |-> "error", message |-> "upstream failed"]

DataFrames ==
    { Frame(<<>>, <<"A">>, <<>>, <<>>, "null", TRUE),
      Frame(<<>>, <<"B", " ", "C">>, <<>>, <<>>, "null", TRUE),
      Frame(<<>>, <<>>, <<"R">>, <<>>, "null", TRUE),
      Frame(<< <<ToolCall(0, "f", <<>>)>> >>, <<>>, <<>>, <<>>, "null", TRUE),
      Frame(<< <<ToolCall(0, "f", <<"a">>)>> >>, <<>>, <<>>, <<>>, "null", TRUE),
      Frame(<< <<ToolCall(0, "f", <<"a", "b">>)>> >>, <<>>, <<>>, <<>>, "null", TRUE),
      Frame(<< <<ToolCall(0, "f", <<"b", "b">>)>> >>, <<>>, <<>>, <<>>, "null", TRUE),
      Frame(<< <<ToolCall(1, "g", <<"a", "b">>)>> >>, <<>>, <<>>, <<>>, "null", TRUE),
      Frame(<< <<ToolCall(1, "g", <<"a">>), ToolCall(0, "f", <<"a">>)>> >>,
            <<>>, <<>>, <<>>, "tool_calls", TRUE),
      Frame(<< <<ToolCall(1, "g", <<"a">>)>> >>, <<"A">>, <<>>, <<>>, "null", TRUE),
      Frame(<<>>, <<>>, <<>>, <<2>>, "null", TRUE),
      Frame(<<>>, <<>>, <<>>, <<>>, "stop", TRUE),
      Frame(<<>>, <<"B">>, <<>>, <<>>, "length", TRUE),
      Frame(<<>>, <<>>, <<>>, <<2>>, "null", FALSE) }

----------------------------------------------------------------------------
\* SSE events (sendSSE writes one event per call).

MessageStart == [type |-> "message_start"]
Ping         == [type |-> "ping"]
BlockStart(i, b, n) ==
    [type |-> "content_block_start", index |-> i, block |-> b, name |-> n]
BlockDelta(i, d, t) ==
    [type |-> "content_block_delta", index |-> i, delta |-> d, text |-> t]
BlockStop(i) == [type |-> "content_block_stop", index |-> i]
MessageDelta(sr, n) ==
    [type |-> "message_delta", stop_reason |-> sr, output_tokens |-> n]
MessageStop  == [type |-> "message_stop"]
ErrorEvent(m) == [type |-> "error", error_type |-> "api_error", message |-> m]

\* Mutant of sendSuccessMessage: the isSucceeded guard is missing, so the
\* preamble is written again for every frame.
sendSuccessMessage_Unguarded(started) == <<MessageStart, Ping>>

\* sendSuccessMessage: the preamble, written once.
sendSuccessMessage(started) ==
    IF started THEN <<>> ELSE <<MessageStart, Ping>>

\* mapStopReason (used by the non-streaming conversion only).
mapStopReason(finishReason) ==
    CASE finishReason = "tool_calls" -> "tool_use"
      [] finishReason = "stop"       -> "end_turn"
      [] finishReason = "length"     -> "max_tokens"
      [] OTHER                       -> "end_turn"

\* Mutant of ToolCallStep: the whole new arguments string is sent as the
\* delta instead of the part after what was already sent.
ToolCallStep_SendsWholeArgs(st, toolCall) ==
    LET idx     == toolCall.index
        isNew   == idx \notin DOMAIN st.acc
        acc1    == IF isNew THEN st.acc @@ (idx :> <<>>) ELSE st.acc
        evs1    == IF isNew
                   THEN Append(st.evs, BlockStart(idx, "tool_use", toolCall.name))
                   ELSE st.evs
        newArgs == toolCall.arguments
        oldArgs == acc1[idx]
    IN  IF Len(newArgs) > Len(oldArgs)
        THEN [acc |-> [acc1 EXCEPT ![idx] = newArgs],
              evs |-> Append(evs1, BlockDelta(idx, "input_json_delta", newArgs))]
        ELSE [acc |-> acc1, evs |-> evs1]

\* One iteration of `for (const toolCall of delta.tool_calls)`.
ToolCallStep(st, toolCall) ==
    LET idx     == toolCall.index
        isNew   == idx \notin DOMAIN st.acc
        acc1    == IF isNew THEN st.acc @@ (idx :> <<>>) ELSE st.acc
        evs1    == IF isNew
                   THEN Append(st.evs, BlockStart(idx, "tool_use", toolCall.name))
                   ELSE st.evs
        newArgs == toolCall.arguments
        oldArgs == acc1[idx]
    IN  IF Len(newArgs) > Len(oldArgs)
        THEN [acc |-> [acc1 EXCEPT ![idx] = newArgs],
              evs |-> Append(evs1,
                        BlockDelta(idx, "input_json_delta",
                                   SubSeq(newArgs, Len(oldArgs) + 1, Len(newArgs))))]
        ELSE [acc |-> acc1, evs |-> evs1]

RECURSIVE ToolCallsLoop(_, _)
ToolCallsLoop(st, toolCalls) ==
    IF toolCalls = <<>> THEN st
    ELSE ToolCallsLoop(ToolCallStep(st, Head(toolCalls)), Tail(toolCalls))

\* `for (const idx in toolCallAccumulators)`: integer keys, ascending order.
RECURSIVE StopEvents(_)
StopEvents(S) ==
    IF S = {} THEN <<>>
    ELSE LET m == CHOOSE x \in S : \A y \in S : x <= y
         IN  <<BlockStop(m)>> \o StopEvents(S \ {m})

\* s.split(' ').length
RECURSIVE SplitLength(_)
SplitLength(s) ==
    IF s = <<>> THEN 1
    ELSE (IF Head(s) = " " THEN 1 ELSE 0) + SplitLength(Tail(s))

\* The stop_reason written at [DONE].
StopReasonAtDone(sawTool) == IF sawTool THEN "tool_use" ELSE "end_turn"

\* Mutant of AfterFrame: the handler returns when a frame carries a
\* finish_reason, so the lines that follow are never translated.
AfterFrame_ReturnsOnFinishReason(f) ==
    IF ~f.choices THEN "hung"
    ELSE IF f.finish_reason # "null" THEN "ended" ELSE "reading"

\* Where the handler stands after a parsed frame:
\* parsed.choices[0].delta throws when choices[0] is missing; otherwise the
\* loop goes on to the next line, whatever finish_reason the frame carries.
AfterFrame(f) == IF f.choices THEN "reading" ELSE "hung"

\* The events of a content or reasoning delta: the text block at index 0 is
\* opened by whichever comes first.
TextEvents(started, d, t) ==
    (IF started THEN <<>> ELSE <<BlockStart(0, "text", "")>>)
      \o <<BlockDelta(0, d, t)>>

----------------------------------------------------------------------------
Init ==
    /\ pc = "reading"
    /\ isSucceeded = FALSE
    /\ textBlockStarted = FALSE
    /\ encounteredToolCall = FALSE
    /\ toolCallAccumulators = <<>>
    /\ accumulatedContent = <<>>
    /\ accumulatedReasoning = <<>>
    /\ usage = <<>>
    /\ out = <<>>
    /\ reply = <<>>
    /\ storeEnd = <<>>
    /\ input = <<>>

CanRead == pc = "reading" /\ Len(input) < MaxLines

\* A blank line, a line that is not `data:`, or a payload JSON.parse rejects.
SkippedLine ==
    /\ CanRead
    /\ input' = Append(input, SkipLine)
    /\ UNCHANGED <<pc, isSucceeded, textBlockStarted, encounteredToolCall,
                   toolCallAccumulators, accumulatedContent,
                   accumulatedReasoning, usage, out, reply, storeEnd>>

\* `data: [DONE]`
DoneSentinel ==
    /\ CanRead
    /\ input' = Append(input, DoneLine)
    /\ LET stops == IF encounteredToolCall
                    THEN StopEvents(DOMAIN toolCallAccumulators)
                    ELSE IF textBlockStarted THEN <<BlockStop(0)>> ELSE <<>>
           stopReason == StopReasonAtDone(encounteredToolCall)
           tokens == IF usage # <<>> THEN usage[1]
                     ELSE SplitLength(accumulatedContent)
                            + SplitLength(accumulatedReasoning)
       IN  /\ out' = out \o stops
                         \o <<MessageDelta(stopReason, tokens), MessageStop>>
           /\ storeEnd' = Append(storeEnd,
                                 [status |-> 200, stop_reason |-> stopReason])
    /\ pc' = "ended"
    /\ UNCHANGED <<isSucceeded, textBlockStarted, encounteredToolCall,
                   toolCallAccumulators, accumulatedContent,
                   accumulatedReasoning, usage, reply>>

\* Mutant of ErrorFrame: the isSucceeded test is missing, so the error is
\* always written as an SSE event.
ErrorFrame_AlwaysEvent ==
    /\ CanRead
    /\ input' = Append(input, ErrorLine)
    /\ out' = Append(out, ErrorEvent(ErrorLine.message))
    /\ pc' = "ended"
    /\ UNCHANGED <<isSucceeded, textBlockStarted, encounteredToolCall,
                   toolCallAccumulators, accumulatedContent,
                   accumulatedReasoning, usage, reply, storeEnd>>

\* A frame with an `error` member.
ErrorFrame ==
    /\ CanRead
    /\ input' = Append(input, ErrorLine)
    /\ IF ~isSucceeded
       THEN \* throw; the catch block replies 500 with err.message
            /\ reply' = <<[status |-> 500, error |-> ErrorLine.message]>>
            /\ pc' = "failed"
            /\ out' = out
       ELSE /\ out' = Append(out, ErrorEvent(ErrorLine.message))
            /\ pc' = "ended"
            /\ reply' = reply
    /\ UNCHANGED <<isSucceeded, textBlockStarted, encounteredToolCall,
                   toolCallAccumulators, accumulatedContent,
                   accumulatedReasoning, usage, storeEnd>>

\* Any other parsed frame.
DataFrame(f) ==
    /\ CanRead
    /\ input' = Append(input, f)
    /\ isSucceeded' = TRUE
    /\ usage' = IF f.usage # <<>> THEN f.usage ELSE usage
    /\ LET pre == out \o sendSuccessMessage(isSucceeded)
       IN
       IF ~f.choices
       THEN \* parsed.choices[0].delta throws; headers are sent, so the catch
            \* block writes nothing and the response is left open
            /\ out' = pre
            /\ pc' = AfterFrame(f)
            /\ UNCHANGED <<textBlockStarted, encounteredToolCall,
                           toolCallAccumulators, accumulatedContent,
                           accumulatedReasoning>>
       ELSE
       /\ pc' = AfterFrame(f)
       /\ IF f.tool_calls # <<>>
          THEN LET r == ToolCallsLoop([acc |-> toolCallAccumulators, evs |-> <<>>],
                                      f.tool_calls[1])
               IN  /\ encounteredToolCall' =
                         (encounteredToolCall \/ f.tool_calls[1] # <<>>)
                   /\ toolCallAccumulators' = r.acc
                   /\ out' = pre \o r.evs
                   /\ UNCHANGED <<textBlockStarted, accumulatedContent,
                                  accumulatedReasoning>>
          ELSE IF f.content # <<>>
          THEN /\ textBlockStarted' = TRUE
               /\ accumulatedContent' = accumulatedContent \o f.content
               /\ out' = pre \o TextEvents(textBlockStarted, "text_delta", f.content)
               /\ UNCHANGED <<encounteredToolCall, toolCallAccumulators,
                              accumulatedReasoning>>
          ELSE IF f.reasoning # <<>>
          THEN /\ textBlockStarted' = TRUE
               /\ accumulatedReasoning' = accumulatedReasoning \o f.reasoning
               /\ out' = pre \o TextEvents(textBlockStarted, "thinking_delta",
                                           f.reasoning)
               /\ UNCHANGED <<encounteredToolCall, toolCallAccumulators,
                              accumulatedContent>>
          ELSE /\ out' = pre
               /\ UNCHANGED <<textBlockStarted, encounteredToolCall,
                              toolCallAccumulators, accumulatedContent,
                              accumulatedReasoning>>
    /\ UNCHANGED <<reply, storeEnd>>

\* reader.read() reports done: the loop exits and res.end() is called.
StreamEnd ==
    /\ pc = "reading"
    /\ pc' = "ended"
    /\ UNCHANGED <<isSucceeded, textBlockStarted, encounteredToolCall,
                   toolCallAccumulators, accumulatedContent,
                   accumulatedReasoning, usage, out, reply, storeEnd, input>>

\* reader.read() rejects (the upstream connection breaks): the catch block
\* replies 500 when no header was sent, and otherwise writes nothing and
\* leaves the response open.
ReadError ==
    /\ pc = "reading"
    /\ IF ~isSucceeded
       THEN /\ reply' = <<[status |-> 500, error |-> "terminated"]>>
            /\ pc' = "failed"
       ELSE /\ reply' = reply
            /\ pc' = "hung"
    /\ UNCHANGED <<isSucceeded, textBlockStarted, encounteredToolCall,
                   toolCallAccumulators, accumulatedContent,
                   accumulatedReasoning, usage, out, storeEnd, input>>

----------------------------------------------------------------------------
\* The observation store (RequestStore, src/monitor/store.js).
\*
\* The Map of requests is a sequence in insertion order; generateId is a
\* counter of ids issued.  null is <<>>, a value v is <<v>>.  Header masking,
\* the sizes in bytes and the token counts are not part of this model.

\* Largest capacity of the store and number of store operations explored.
MaxCapacity == 2
MaxStoreOps == 5

Max(a, b) == IF a >= b THEN a ELSE b
Min(a, b) == IF a <= b THEN a ELSE b

NoStats == [totalRequests |-> 0, successCount |-> 0, errorCount |-> 0,
            totalDuration |-> 0]

\* new RequestStore(maxSize)
RequestStore(maxSize) ==
    [requests |-> <<>>, maxSize |-> maxSize, stats |-> NoStats,
     issued |-> 0, emitted |-> <<>>]

requestData(id, now) ==
    [id |-> id, timestamp |-> now, startTime |-> now, response |-> <<>>,
     chunksCount |-> 0, firstChunkTime |-> <<>>, mergedContent |-> <<>>,
     duration |-> <<>>, status |-> "pending", error |-> <<>>]

Ids(requests) == {requests[i].id : i \in 1..Len(requests)}
Get(requests, id) == CHOOSE i \in 1..Len(requests) : requests[i].id = id
Without(requests, ids) == SelectSeq(requests, LAMBDA r : r.id \notin ids)

\* The comparator of the eviction sort: pending requests last, then by
\* timestamp, oldest first.
evictCompare(a, b) ==
    IF a.status = "pending" /\ b.status # "pending" THEN 1
    ELSE IF b.status = "pending" /\ a.status # "pending" THEN -1
    ELSE a.timestamp - b.timestamp

\* Array.prototype.sort with that comparator (a stable sort).
RECURSIVE evictSort(_)
evictSort(requests) ==
    IF requests = <<>> THEN <<>>
    ELSE LET n == Len(requests)
             r == requests[n]
             init == evictSort(SubSeq(requests, 1, n - 1))
             k == Cardinality({i \in 1..(n - 1) : evictCompare(init[i], r) <= 0})
         IN  SubSeq(init, 1, k) \o <<r>> \o SubSeq(init, k + 1, n - 1)

\* Mutant of removeCount: nothing is removed.
removeCount_Zero(maxSize) == 0

\* Math.max(1, Math.floor(maxSize * 0.1))
removeCount(maxSize) == Max(1, maxSize \div 10)

\* Mutant of evictOldestRequests: the oldest requests go first, pending or not.
evictOldestRequests_ByAgeOnly(S) ==
    [S EXCEPT !.requests =
        SubSeq(S.requests, Min(removeCount(S.maxSize), Len(S.requests)) + 1,
               Len(S.requests))]

evictOldestRequests(S) ==
    LET sorted == evictSort(S.requests)
        n == Min(removeCount(S.maxSize), Len(sorted))
        kept == Without(S.requests, {sorted[i].id : i \in 1..n})
        pending == SelectSeq(sorted, LAMBDA r : r.status = "pending")
    IN  [S EXCEPT !.requests =
            IF Len(kept) >= S.maxSize /\ pending # <<>>
            THEN Without(kept, {pending[1].id})
            ELSE kept]

Emit(S, type, id) ==
    [S EXCEPT !.emitted = Append(@, [type |-> type, id |-> id])]

\* startRequest(req); the id it returns is S.issued + 1.
startRequest(S, now) ==
    LET id == S.issued + 1
        T == IF Len(S.requests) >= S.maxSize THEN evictOldestRequests(S) ELSE S
    IN  Emit([T EXCEPT !.requests = Append(@, requestData(id, now)),
                       !.issued = id,
                       !.stats.totalRequests = @ + 1],
             "requestStart", id)

\* endRequest(id, {status, ...})
endRequest(S, id, status, now) ==
    IF id \notin Ids(S.requests) THEN S
    ELSE LET i == Get(S.requests, id)
             duration == now - S.requests[i].startTime
             ok == status >= 200 /\ status < 300
         IN  Emit([S EXCEPT !.requests[i].response = <<status>>,
                            !.requests[i].duration = <<duration>>,
                            !.requests[i].status =
                                IF ok THEN "success" ELSE "error",
                            !.stats.totalDuration = @ + duration,
                            !.stats.successCount = IF ok THEN @ + 1 ELSE @,
                            !.stats.errorCount = IF ok THEN @ ELSE @ + 1],
                  "requestEnd", id)

\* addStreamChunk(id, chunk)
addStreamChunk(S, id, now) ==
    IF id \notin Ids(S.requests) THEN S
    ELSE LET i == Get(S.requests, id)
             r == S.requests[i]
         IN  Emit([S EXCEPT !.requests[i].firstChunkTime =
                                IF r.chunksCount = 0
                                THEN <<now - r.startTime>> ELSE @,
                            !.requests[i].chunksCount = @ + 1],
                  "streamChunk", id)

\* setMergedContent(id, mergedContent)
setMergedContent(S, id) ==
    IF id \notin Ids(S.requests) THEN S
    ELSE [S EXCEPT !.requests[Get(S.requests, id)].mergedContent = <<"merged">>]

\* setError without the lookup guard: an unknown id still counts an error.
setError_Unguarded(S, id) ==
    IF id \notin Ids(S.requests)
    THEN [S EXCEPT !.stats.errorCount = @ + 1]
    ELSE LET i == Get(S.requests, id)
         IN  Emit([S EXCEPT !.requests[i].status = "error",
                            !.requests[i].error = <<"error">>,
                            !.stats.errorCount = @ + 1],
                  "requestError", id)

\* setError(id, error)
setError(S, id) ==
    IF id \notin Ids(S.requests) THEN S
    ELSE LET i == Get(S.requests, id)
         IN  Emit([S EXCEPT !.requests[i].status = "error",
                            !.requests[i].error = <<"error">>,
                            !.stats.errorCount = @ + 1],
                  "requestError", id)

\* clear that empties the records and keeps the counters.
clear_KeepsCounters(S) ==
    [S EXCEPT !.requests = <<>>,
              !.emitted = Append(@, [type |-> "clear", id |-> 0])]

\* clear()
clear(S) ==
    [S EXCEPT !.requests = <<>>, !.stats = NoStats,
              !.emitted = Append(@, [type |-> "clear", id |-> 0])]

\* Math.round of the quotient a / b of two naturals, b > 0
Round(a, b) == (2 * a + b) \div (2 * b)
StillPending(requests) == SelectSeq(requests, LAMBDA r : r.status = "pending")

\* getStats(): successRate is the number 0 followed by '%' while nothing was
\* counted and the rate with two decimals after that (kept here in
\* hundredths); avgDuration is the rounded mean followed by 'ms'.
getStats(S) ==
    LET total == S.stats.totalRequests
    IN  [totalRequests |-> total,
         successCount  |-> S.stats.successCount,
         errorCount    |-> S.stats.errorCount,
         successRate   |-> IF total > 0
                           THEN [hundredths |->
                                    Round(S.stats.successCount * 10000, total),
                                 decimals |-> 2, unit |-> "%"]
                           ELSE [hundredths |-> 0, decimals |-> 0, unit |-> "%"],
         avgDuration   |-> IF total > 0
                           THEN <<Round(S.stats.totalDuration, total), "ms">>
                           ELSE <<0, "ms">>,
         activeRequests |-> Len(StillPending(S.requests))]

\* The store once constructed, for each capacity explored.
StoreInit ==
    /\ store \in {RequestStore(n) : n \in 1..MaxCapacity}
    /\ clock = 0
    /\ storeOps = 0

\* Ids an operation may name: those issued, and 0, which never is.
SomeId == 0..store.issued
Statuses == {200, 500}

CanApply == storeOps < MaxStoreOps
Applied == storeOps' = storeOps + 1

\* tick: whether the clock moved since the last operation.
StartRequest(tick) ==
    /\ CanApply /\ Applied
    /\ clock' = clock + tick
    /\ store' = startRequest(store, clock')

EndRequest(id, status, tick) ==
    /\ CanApply /\ Applied
    /\ clock' = clock + tick
    /\ store' = endRequest(store, id, status, clock')

AddStreamChunk(id) ==
    /\ CanApply /\ Applied
    /\ store' = addStreamChunk(store, id, clock)
    /\ clock' = clock

SetMergedContent(id) ==
    /\ CanApply /\ Applied
    /\ store' = setMergedContent(store, id)
    /\ clock' = clock

SetError(id) ==
    /\ CanApply /\ Applied
    /\ store' = setError(store, id)
    /\ clock' = clock

Clear ==
    /\ CanApply /\ Applied
    /\ store' = clear(store)
    /\ clock' = clock

\* A full store, as a sequence of operations leaves it: `cap` requests started
\* one after the other, those of `done` ended since.  With `tie`, two
\* consecutive requests share a timestamp.
EvictCapacities == {1, 2, 3, 10, 20}
StampOf(p, tie) == IF tie THEN (p + 1) \div 2 ELSE p

\* Request p of a full store: ended with status 200 or 500 when p is in done.
FullRequest(p, cap, done, tie) ==
    LET r == requestData(p, StampOf(p, tie))
        status == IF p % 2 = 0 THEN 200 ELSE 500
    IN  IF p \notin done THEN r
        ELSE [r EXCEPT !.response = <<status>>,
                       !.duration = <<StampOf(cap, tie) - r.startTime>>,
                       !.status = IF status = 200 THEN "success" ELSE "error"]

FullStore(cap, done, tie) ==
    LET requests == [p \in 1..cap |-> FullRequest(p, cap, done, tie)]
        ended == SelectSeq(requests, LAMBDA r : r.status # "pending")
        Sum[k \in 0..Len(ended)] ==
            IF k = 0 THEN 0 ELSE Sum[k - 1] + ended[k].duration[1]
    IN  [requests |-> requests,
         maxSize |-> cap,
         stats |-> [totalRequests |-> cap,
                    successCount |-> Cardinality({p \in done : p % 2 = 0}),
                    errorCount |-> Cardinality({p \in done : p % 2 = 1}),
                    totalDuration |-> Sum[Len(ended)]],
         issued |-> cap,
         emitted |-> [p \in 1..cap |-> [type |-> "requestStart", id |-> p]]
                       \o [k \in 1..Len(ended) |->
                              [type |-> "requestEnd", id |-> ended[k].id]]]

\* The sets of ended requests explored: a few of the oldest and the newest
\* request, or all but a few of them.
DoneSets(cap) ==
    LET probes == {1, 2, 3, cap} \cap (1..cap)
    IN  (SUBSET probes) \cup {(1..cap) \ P : P \in SUBSET probes}

EvictInit ==
    \E cap \in EvictCapacities, tie \in BOOLEAN :
      \E done \in DoneSets(cap) :
        /\ store = FullStore(cap, done, tie)
        /\ clock = StampOf(cap, tie)
        /\ storeOps = 0

----------------------------------------------------------------------------
\* One POST /v1/messages exchange (src/server.js, src/routers/openrouter.js).
\*
\* proxy is the state of the exchange: the routing mode of the configuration,
\* the position of the handler (px), what the client was sent and what became
\* of the upstream request.  The body of a direct stream is a sequence of
\* characters: "d" ":" stand for the prefix `data: ` (so that a read can cut
\* it), "x" for any other visible character; cut records that a read ended
\* inside a line which a later read completed.  The frames of a translated
\* stream are only counted here; Spec has their content.  res.write does not
\* throw for a string, so the catch blocks around it are not modelled, and
\* the payloads relayed are taken to be JSON.

\* Characters of upstream body one direct stream carries, and frames one
\* translated stream carries.
MaxBytes == 5
MaxFrames == 2

\* constructor(maxSize = 1000)
DefaultMaxSize == 1000

Bytes == {"d", ":", "x", " ", "\n"}
ChunkLengths == {1, 2, 3}
Chunks == UNION {[1..k -> Bytes] : k \in ChunkLengths}
UpstreamStatuses == {200, 429, 500}
Failures == {"timeout", "network"}

\* String.prototype.split('\n')
RECURSIVE Split(_)
Split(s) ==
    IF \A i \in 1..Len(s) : s[i] # "\n" THEN <<s>>
    ELSE LET k == CHOOSE i \in 1..Len(s) :
                      s[i] = "\n" /\ \A j \in 1..(i - 1) : s[j] # "\n"
         IN  <<SubSeq(s, 1, k - 1)>> \o Split(SubSeq(s, k + 1, Len(s)))

\* !line.trim()
IsBlank(line) == \A i \in 1..Len(line) : line[i] = " "
\* line.startsWith('data: ')
StartsWithData(line) == Len(line) >= 2 /\ line[1] = "d" /\ line[2] = ":"
\* line.substring(6)
ChunkData(line) == SubSeq(line, 3, Len(line))
\* the line is pushed to collectedResponse and to the store
Collected(line) ==
    ~IsBlank(line) /\ StartsWithData(line) /\ ~IsBlank(ChunkData(line))

\* What the 'data' handler writes for one complete line.
WriteLine(line) ==
    IF IsBlank(line) THEN <<>>
    ELSE line \o <<"\n">> \o (IF StartsWithData(line) THEN <<"\n">> ELSE <<>>)

RECURSIVE WriteLines(_)
WriteLines(lines) ==
    IF lines = <<>> THEN <<>>
    ELSE WriteLine(Head(lines)) \o WriteLines(Tail(lines))

CollectedIn(lines) == Cardinality({i \in 1..Len(lines) : Collected(lines[i])})
WrittenIn(lines) == Cardinality({i \in 1..Len(lines) : ~IsBlank(lines[i])})

\* Mutant of Pop: the incomplete line is not kept for the next read.
Pop_Dropped(lines) == <<>>

\* buffer = lines.pop()
Pop(lines) == lines[Len(lines)]

RECURSIVE AddChunks(_, _, _, _)
AddChunks(S, id, n, now) ==
    IF n = 0 THEN S ELSE addStreamChunk(AddChunks(S, id, n - 1, now), id, now)

\* No request received yet, under either routing mode.
Listening(mode) ==
    [proxyMode |-> mode, stream |-> FALSE, px |-> "idle",
     monitorId |-> 0, upstream |-> "none",
     upstreamStatus |-> <<>>, clientStatus |-> <<>>,
     client |-> "connected", closedIn |-> "never",
     resEnds |-> 0, errorEvents |-> 0, lateWrites |-> 0,
     timedOut |-> FALSE, responseEnded |-> FALSE,
     streamDestroyed |-> FALSE, buffer |-> <<>>,
     collected |-> 0, upstreamBytes |-> <<>>, cut |-> FALSE,
     clientBytes |-> <<>>, chunksRead |-> 0]

ProxyInit ==
    /\ proxy \in {Listening(mode) : mode \in {"direct", "openrouter"}}
    /\ store = RequestStore(DefaultMaxSize)
    /\ clock = 0
    /\ storeOps = 0

Route(mode, s) == proxy.proxyMode = mode /\ proxy.stream = s
\* n writes reach a connection that may be closed already
Late(n) == IF proxy.client = "closed" THEN proxy.lateWrites + n
           ELSE proxy.lateWrites
\* the upstream request once it failed: axios aborts it on a timeout
Failed(kind) == IF kind = "timeout" THEN "destroyed" ELSE "failed"
\* res.write before any writeHead sends the headers with status 200
Implicit200 == IF proxy.clientStatus = <<>> THEN <<200>> ELSE proxy.clientStatus

\* app.post('/v1/messages'): the record is started and the upstream request
\* sent; direct streaming writes the 200 header before that.
PostMessages(s) ==
    /\ proxy.px = "idle"
    /\ store' = startRequest(store, clock)
    /\ proxy' = [proxy EXCEPT
         !.stream = s,
         !.monitorId = store.issued + 1,
         !.px = "await",
         !.upstream = "inflight",
         !.clientStatus = IF proxy.proxyMode = "direct" /\ s
                          THEN <<200>> ELSE @]

\* Direct, not streaming: axios.post resolves.
DirectReply(status) ==
    /\ Route("direct", FALSE) /\ proxy.px = "await"
    /\ store' = IF status # 200 THEN store
                ELSE endRequest(store, proxy.monitorId, status, clock)
    /\ proxy' = [proxy EXCEPT
         !.px = "done", !.upstream = "closed",
         !.upstreamStatus = <<status>>, !.clientStatus = <<status>>,
         !.resEnds = @ + 1, !.lateWrites = Late(1)]

\* Direct, not streaming: axios.post rejects, or something else throws.
DirectFail(kind) ==
    /\ Route("direct", FALSE) /\ proxy.px = "await"
    /\ store' = setError(store, proxy.monitorId)
    /\ proxy' = [proxy EXCEPT
         !.px = "done", !.upstream = Failed(kind),
         !.timedOut = (kind = "timeout"),
         !.clientStatus = IF kind = "timeout" THEN <<504>>
                          ELSE IF kind = "network" THEN <<502>> ELSE <<500>>,
         !.resEnds = @ + 1, !.lateWrites = Late(1)]

\* Direct streaming: axios.post resolves with the response headers; the
\* handlers of the body are attached.
StreamAnswer(status) ==
    /\ Route("direct", TRUE) /\ proxy.px = "await"
    /\ proxy' = [proxy EXCEPT
         !.px = IF status # 200 THEN "errbody" ELSE "relay",
         !.upstream = "open", !.upstreamStatus = <<status>>]
    /\ store' = store

\* Direct streaming: axios.post rejects; the catch block writes an error
\* event and ends the response.
StreamFail(kind) ==
    /\ Route("direct", TRUE) /\ proxy.px = "await"
    /\ proxy' = [proxy EXCEPT
         !.px = "done", !.upstream = Failed(kind),
         !.timedOut = (kind = "timeout"),
         !.errorEvents = @ + 1, !.lateWrites = Late(1),
         !.resEnds = @ + 1, !.responseEnded = TRUE]
    /\ store' = store

\* Direct streaming, upstream status not 200: 'end' of the error body.
ErrBodyEnd ==
    /\ proxy.px = "errbody"
    /\ IF proxy.responseEnded
       THEN proxy' = [proxy EXCEPT !.px = "done", !.upstream = "closed"]
       ELSE proxy' = [proxy EXCEPT
              !.px = "done", !.upstream = "closed",
              !.errorEvents = @ + 1, !.lateWrites = Late(1),
              !.resEnds = @ + 1, !.responseEnded = TRUE]
    /\ store' = store

\* Direct streaming: 'data'.
RelayData(chunk) ==
    /\ proxy.px = "relay" /\ proxy.upstream = "open"
    /\ Len(proxy.upstreamBytes) + Len(chunk) <= MaxBytes
    /\ IF proxy.responseEnded \/ proxy.streamDestroyed
       THEN /\ proxy' = [proxy EXCEPT !.upstreamBytes = @ \o chunk]
            /\ store' = store
       ELSE LET all == Split(proxy.buffer \o chunk)
                lines == SubSeq(all, 1, Len(all) - 1)
            IN  /\ proxy' = [proxy EXCEPT
                     !.upstreamBytes = @ \o chunk,
                     !.cut = @ \/ (proxy.buffer # <<>> /\ Len(all) > 1),
                     !.buffer = Pop(all),
                     !.collected = @ + CollectedIn(lines),
                     !.clientBytes = @ \o WriteLines(lines),
                     !.lateWrites = Late(WrittenIn(lines))]
                /\ store' = AddChunks(store, proxy.monitorId,
                                      CollectedIn(lines), clock)

\* Mutant of RelayEnd: the record is not ended.
RelayEnd_NoEndRequest ==
    /\ proxy.px = "relay" /\ proxy.upstream = "open"
    /\ IF proxy.responseEnded
       THEN /\ proxy' = [proxy EXCEPT !.px = "done", !.upstream = "closed"]
            /\ store' = store
       ELSE LET rest == IF IsBlank(proxy.buffer) \/ proxy.streamDestroyed
                        THEN <<>> ELSE proxy.buffer \o <<"\n", "\n">>
            IN  /\ store' = IF proxy.collected = 0 THEN store
                            ELSE setMergedContent(store, proxy.monitorId)
                /\ proxy' = [proxy EXCEPT
                     !.px = "done", !.upstream = "closed",
                     !.clientBytes = @ \o rest,
                     !.resEnds = @ + 1, !.responseEnded = TRUE]

\* Direct streaming: 'end'.
RelayEnd ==
    /\ proxy.px = "relay" /\ proxy.upstream = "open"
    /\ IF proxy.responseEnded
       THEN /\ proxy' = [proxy EXCEPT !.px = "done", !.upstream = "closed"]
            /\ store' = store
       ELSE LET rest == IF IsBlank(proxy.buffer) \/ proxy.streamDestroyed
                        THEN <<>> ELSE proxy.buffer \o <<"\n", "\n">>
                merged == IF proxy.collected = 0 THEN store
                          ELSE setMergedContent(store, proxy.monitorId)
                ends == ~proxy.streamDestroyed
            IN  /\ store' = IF ends
                            THEN endRequest(merged, proxy.monitorId, 200, clock)
                            ELSE merged
                /\ proxy' = [proxy EXCEPT
                     !.px = "done", !.upstream = "closed",
                     !.clientBytes = @ \o rest,
                     !.lateWrites = Late(IF rest = <<>> THEN 0 ELSE 1),
                     !.resEnds = IF ends THEN @ + 1 ELSE @,
                     !.responseEnded = IF ends THEN TRUE ELSE @]

\* 'error' handler without its first line `if (responseEnded) return`.
RelayError_Unguarded(kind) ==
    /\ proxy.px = "relay" /\ proxy.upstream = "open"
    /\ store' = store
    /\ proxy' = [proxy EXCEPT
         !.px = "done", !.upstream = Failed(kind),
         !.timedOut = (kind = "timeout"),
         !.errorEvents = IF proxy.streamDestroyed \/ proxy.responseEnded
                         THEN @ ELSE @ + 1,
         !.lateWrites = Late(IF proxy.streamDestroyed \/ proxy.responseEnded
                             THEN 0 ELSE 1),
         !.resEnds = @ + 1, !.responseEnded = TRUE]

\* Direct streaming: 'error' of the upstream body.
RelayError(kind) ==
    /\ proxy.px = "relay" /\ proxy.upstream = "open"
    /\ store' = store
    /\ IF proxy.responseEnded
       THEN proxy' = [proxy EXCEPT
              !.px = "done", !.upstream = Failed(kind),
              !.timedOut = (kind = "timeout")]
       ELSE proxy' = [proxy EXCEPT
              !.px = "done", !.upstream = Failed(kind),
              !.timedOut = (kind = "timeout"),
              !.errorEvents = IF proxy.streamDestroyed THEN @ ELSE @ + 1,
              !.lateWrites = Late(IF proxy.streamDestroyed THEN 0 ELSE 1),
              !.resEnds = @ + 1, !.responseEnded = TRUE]

\* The client goes away.  Only the direct relay has a 'close' handler, which
\* raises both flags and destroys the upstream body.
ClientClose ==
    /\ proxy.px \in {"await", "errbody", "relay", "reading"}
    /\ proxy.client = "connected"
    /\ store' = store
    /\ IF proxy.px = "relay"
       THEN proxy' = [proxy EXCEPT
              !.client = "closed", !.closedIn = proxy.px,
              !.responseEnded = TRUE, !.streamDestroyed = TRUE,
              !.upstream = "destroyed", !.px = "dropped"]
       ELSE proxy' = [proxy EXCEPT
              !.client = "closed", !.closedIn = proxy.px]

\* Direct streaming: 'error' of the response: both flags are raised, the
\* upstream body is left alone.
ResError ==
    /\ proxy.px = "relay" /\ proxy.client = "connected"
    /\ ~proxy.responseEnded
    /\ proxy' = [proxy EXCEPT
         !.client = "closed", !.closedIn = proxy.px,
         !.responseEnded = TRUE, !.streamDestroyed = TRUE]
    /\ store' = store

\* Direct streaming: the upstream body emits one more event although it
\* has ended, failed or was destroyed; the handlers are still attached.
Redeliver ==
    /\ Route("direct", TRUE) /\ proxy.px \in {"done", "dropped"}
    /\ proxy.upstreamStatus # <<>>
    /\ proxy' = [proxy EXCEPT
         !.px = IF proxy.upstreamStatus = <<200>> THEN "relay" ELSE "errbody",
         !.upstream = "open"]
    /\ store' = store

\* Translated, not streaming: fetch resolves with status and body.
XlateReply(status) ==
    /\ Route("openrouter", FALSE) /\ proxy.px = "await"
    /\ store' = endRequest(store, proxy.monitorId, status, clock)
    /\ proxy' = [proxy EXCEPT
         !.px = "done", !.upstream = "closed",
         !.upstreamStatus = <<status>>, !.clientStatus = <<status>>,
         !.resEnds = @ + 1, !.lateWrites = Late(1)]

\* Translated, not streaming: fetch rejects, or the body carries an error
\* member: handleError.
XlateFail ==
    /\ Route("openrouter", FALSE) /\ proxy.px = "await"
    /\ store' = endRequest(store, proxy.monitorId, 500, clock)
    /\ proxy' = [proxy EXCEPT
         !.px = "done", !.upstream = "failed",
         !.clientStatus = <<500>>,
         !.resEnds = @ + 1, !.lateWrites = Late(1)]

\* Translated streaming: fetch resolves with the response headers.
XlateStreamAnswer(status) ==
    /\ Route("openrouter", TRUE) /\ proxy.px = "await"
    /\ store' = store
    /\ IF status >= 200 /\ status < 300
       THEN proxy' = [proxy EXCEPT
              !.px = "reading", !.upstream = "open",
              !.upstreamStatus = <<status>>]
       ELSE proxy' = [proxy EXCEPT
              !.px = "done", !.upstream = "closed",
              !.upstreamStatus = <<status>>, !.clientStatus = <<status>>,
              !.resEnds = @ + 1, !.lateWrites = Late(1)]

\* Translated streaming: fetch rejects; the catch block replies 500.
XlateStreamFail ==
    /\ Route("openrouter", TRUE) /\ proxy.px = "await"
    /\ store' = store
    /\ proxy' = [proxy EXCEPT
         !.px = "done", !.upstream = "failed",
         !.clientStatus = <<500>>,
         !.resEnds = @ + 1, !.lateWrites = Late(1)]

\* Translated streaming: a frame is read and its events are written.
XlateFrame ==
    /\ proxy.px = "reading" /\ proxy.chunksRead < MaxFrames
    /\ store' = store
    /\ proxy' = [proxy EXCEPT
         !.chunksRead = @ + 1, !.clientStatus = <<200>>,
         !.lateWrites = Late(1)]

\* Translated streaming: `data: [DONE]`.
XlateDone ==
    /\ proxy.px = "reading"
    /\ store' = endRequest(store, proxy.monitorId, 200, clock)
    /\ proxy' = [proxy EXCEPT
         !.px = "done", !.upstream = "closed",
         !.clientStatus = Implicit200,
         !.resEnds = @ + 1, !.lateWrites = Late(1)]

\* Translated streaming: the body ends without [DONE].
XlateEof ==
    /\ proxy.px = "reading"
    /\ store' = store
    /\ proxy' = [proxy EXCEPT
         !.px = "done", !.upstream = "closed",
         !.clientStatus = Implicit200, !.resEnds = @ + 1]

\* Translated streaming: a frame with an error member.
XlateErrorFrame ==
    /\ proxy.px = "reading"
    /\ store' = store
    /\ IF proxy.clientStatus = <<>>
       THEN proxy' = [proxy EXCEPT
              !.px = "done", !.clientStatus = <<500>>,
              !.resEnds = @ + 1, !.lateWrites = Late(1)]
       ELSE proxy' = [proxy EXCEPT
              !.px = "done", !.errorEvents = @ + 1,
              !.resEnds = @ + 1, !.lateWrites = Late(1)]

\* Translated streaming: reader.read() rejects.
XlateReadError ==
    /\ proxy.px = "reading"
    /\ store' = store
    /\ IF proxy.clientStatus = <<>>
       THEN proxy' = [proxy EXCEPT
              !.px = "done", !.upstream = "failed",
              !.clientStatus = <<500>>,
              !.resEnds = @ + 1, !.lateWrites = Late(1)]
       ELSE proxy' = [proxy EXCEPT !.px = "hung", !.upstream = "failed"]

----------------------------------------------------------------------------
\* The translated streaming loop fed by reads that may end inside a line
\* (openrouter.js:199-211): each read is decoded and split at '\n' on its own,
\* so the two pieces of a line cut by a read are two lines of their own.  The
\* head is not a complete payload and JSON.parse rejects it (or it does not
\* start with `data:`); the tail does not start with `data:`.  Both are
\* skipped.  input records the line the upstream sent.

\* The lines explored here: the frames without tool calls, [DONE], an error
\* frame and a line that is skipped anyway.
CutFrames == {f \in DataFrames : f.tool_calls = <<>> /\ f.choices}
CutLines == CutFrames \cup {DoneLine, ErrorLine, SkipLine}

SplitLine(l) ==
    /\ CanRead
    /\ input' = Append(input, l)
    /\ splits' = splits + 1
    /\ UNCHANGED <<pc, isSucceeded, textBlockStarted, encounteredToolCall,
                   toolCallAccumulators, accumulatedContent,
                   accumulatedReasoning, usage, out, reply, storeEnd>>

\* What the loop does with line l when one read brings it whole.
WholeLine(l) ==
    IF l.kind = "done" THEN DoneSentinel
    ELSE IF l.kind = "error" THEN ErrorFrame
    ELSE IF l.kind = "skip" THEN SkippedLine
    ELSE DataFrame(l)

----------------------------------------------------------------------------
\* A subscriber of the store: one connection to GET /api/monitor/stream
\* (src/server.js).  The store is an EventEmitter: emit() calls the listeners
\* synchronously, inside the mutator, in the order they were registered; an
\* exception thrown by a listener propagates out of emit() into the mutator,
\* which has no try/catch around it.

VARIABLES
    sink                   \* the connection: listeners on/off, what they were handed

\* The events the endpoint registers listeners for.
Listened == {"requestStart", "requestEnd", "requestError", "streamChunk"}

\* No connection yet.  since is the number of records started before the
\* listeners were registered; delivered is the sequence of events the
\* listeners wrote to the connection (each is written as the record's JSON);
\* failed counts listener calls that threw; raised tells whether the last
\* store mutator ended with an exception.
NoSink ==
    [state |-> "none", since |-> 0, delivered |-> <<>>, failed |-> 0,
     raised |-> FALSE]

\* The events store T emitted since it was store S.
EmittedBy(S, T) ==
    SubSeq(T.emitted, Len(S.emitted) + 1, Len(T.emitted))

Deliver_Newest_First(k, S, T, throws) ==
    LET events == SelectSeq(EmittedBy(S, T), LAMBDA e : e.type \in Listened)
    IN  IF k.state # "on" \/ events = <<>> THEN [k EXCEPT !.raised = FALSE]
        ELSE IF throws
        THEN [k EXCEPT !.failed = @ + 1, !.raised = TRUE]
        ELSE [k EXCEPT !.delivered = events \o @, !.raised = FALSE]

\* emit() as the connection sees it: the listener of each event runs before
\* the mutator returns and writes the event to the response; when it throws
\* (JSON.stringify of the record, res.write) nothing is written and the
\* exception leaves the mutator.
Deliver(k, S, T, throws) ==
    LET events == SelectSeq(EmittedBy(S, T), LAMBDA e : e.type \in Listened)
    IN  IF k.state # "on" \/ events = <<>> THEN [k EXCEPT !.raised = FALSE]
        ELSE IF throws
        THEN [k EXCEPT !.failed = @ + 1, !.raised = TRUE]
        ELSE [k EXCEPT !.delivered = @ \o events, !.raised = FALSE]

\* Number of store operations applied while a connection is observed.
MaxEvents == 3

\* This step's store events are handed to the connection.
Publish(throws) ==
    /\ storeOps < MaxEvents
    /\ sink' = Deliver(sink, store, store', throws)

\* app.get('/api/monitor/stream'): the four listeners are registered.
Subscribe ==
    /\ sink.state = "none"
    /\ sink' = [sink EXCEPT !.state = "on", !.since = store.issued,
                            !.raised = FALSE]
    /\ UNCHANGED storeVars

\* req.on('close'): the four listeners are removed.
Unsubscribe ==
    /\ sink.state = "on"
    /\ sink' = [sink EXCEPT !.state = "off", !.raised = FALSE]
    /\ UNCHANGED storeVars

----------------------------------------------------------------------------
\* The configuration (ConfigManager, src/config/manager.js).  Of the
\* configuration object the model keeps the routing mode, the OpenRouter key
\* and the upstream model of the sonnet family; config.json holds the same
\* three fields once it is written.  converter is the sonnet model in the
\* configuration the translator's converter holds, mapped the last request
\* translated under it.

VARIABLES
    config                 \* environment, configuration in memory, config.json

\* Values of OPENROUTER_API_KEY and of an apiKey field; "" is unset.
Keys == {"", "sk-or-env", "sk-or-sent"}

ProxyModes == {"anthropic", "openrouter"}

UpstreamModels == {"anthropic/claude-3.5-sonnet", "openai/gpt-4o"}

\* getDefaultConfig: the key is taken from the environment.
getDefaultConfig(env) ==
    [proxyMode |-> "anthropic", apiKey |-> env,
     sonnet |-> "anthropic/claude-3.5-sonnet"]

\* loadConfig: the parsed file when there is one, the defaults otherwise.
loadConfig(c) ==
    IF c.file # <<>> THEN c.file[1] ELSE getDefaultConfig(c.env)

\* A request body or an imported document: every field is absent (<<>>) or
\* present (<<value>>).
Updates ==
    [proxyMode : {<<>>} \cup {<<m>> : m \in ProxyModes \cup {"bogus"}},
     apiKey : {<<>>} \cup {<<k>> : k \in Keys},
     sonnet : {<<>>} \cup {<<m>> : m \in UpstreamModels}]

\* validateConfig: throws on a proxyMode that is neither of the two.
validateConfig(u) ==
    u.proxyMode = <<>> \/ u.proxyMode[1] \in ProxyModes

\* mergeDeep(target, source): the fields present in source replace target's.
mergeDeep(target, u) ==
    [f \in DOMAIN target |-> IF u[f] = <<>> THEN target[f] ELSE u[f][1]]

\* notifyListeners, with the listener server.js registers: in openrouter
\* mode the converter is given the new configuration, in anthropic mode it
\* keeps the one it has.
notifyListeners(c) ==
    IF c.mem.proxyMode = "openrouter" THEN [c EXCEPT !.converter = c.mem.sonnet]
    ELSE c

\* saveConfig: JSON.stringify(this.config) is written to config.json and the
\* listeners are notified; when writeFileSync throws the file is left as it
\* was and nobody is notified.
saveConfig(c, written) ==
    IF written THEN notifyListeners([c EXCEPT !.file = <<c.mem>>]) ELSE c

\* The process starts: new ConfigManager() loads the configuration.  The
\* file is absent, or was written by hand without a key.
HandWritten ==
    [proxyMode : ProxyModes, apiKey : {""}, sonnet : UpstreamModels]

ConfigInit ==
    \E env \in {"", "sk-or-env"}, file \in {<<>>} \cup {<<h>> : h \in HandWritten} :
        config = [env |-> env, file |-> file,
                  mem |-> loadConfig([env |-> env, file |-> file]),
                  converter |-> loadConfig([env |-> env, file |-> file]).sonnet,
                  mapped |-> <<>>]

\* POST /api/config: updateConfig(req.body).
UpdateConfig(u, written) ==
    /\ config' = IF validateConfig(u)
                 THEN saveConfig([config EXCEPT !.mem = mergeDeep(@, u)], written)
                 ELSE config

\* setProxyMode(mode).
SetProxyMode(mode, written) ==
    /\ config' = IF mode \in ProxyModes
                 THEN saveConfig([config EXCEPT !.mem.proxyMode = mode], written)
                 ELSE config

\* POST /api/config/reload: reloadConfig() reads the file again and takes the
\* key from the environment; nothing is written, and the listeners are
\* notified when the configuration changed.
ReloadConfig ==
    LET reloaded == [config EXCEPT
                        !.mem = [loadConfig(config) EXCEPT !.apiKey = config.env]]
    IN  config' = IF reloaded.mem # config.mem THEN notifyListeners(reloaded)
                  ELSE reloaded

\* POST /api/config/reset: resetToDefaults().
ResetToDefaults(written) ==
    /\ config' = saveConfig([config EXCEPT !.mem = getDefaultConfig(config.env)],
                            written)

\* importConfig(configString): the document is merged over the defaults.
ImportConfig(u, written) ==
    /\ config' = saveConfig(
                     [config EXCEPT !.mem = mergeDeep(getDefaultConfig(config.env), u)],
                     written)

----------------------------------------------------------------------------
\* The client's credentials in the record and in the logs: what
\* app.post('/v1/messages') (src/server.js) and RequestStore.startRequest
\* (src/monitor/store.js) do with one header of the request.

VARIABLES
    hdr                    \* one header of a request: name, value, record, log

\* Longest interior of a header value, between its first 10 and last 4
\* characters.
MaxInterior == 7

KeyPrefixes ==
    {<<"s", "k", "-", "a", "n", "t", "-", "a", "p", "i">>,
     <<"B", "e", "a", "r", "e", "r", " ", "s", "k", "-">>}

KeySuffixes ==
    {<<"w", "x", "y", "z">>, <<"w", "x", "y", "0">>}

KeyInteriors ==
    UNION {[1..n -> {"0", "1"}] : n \in 0..MaxInterior}

\* Header values: short ones of 0 to 10 characters, and values of 14
\* characters and more.
HeaderValues ==
    {SubSeq(p, 1, n) : p \in KeyPrefixes, n \in 0..10}
        \cup {p \o m \o x : p \in KeyPrefixes, m \in KeyInteriors, x \in KeySuffixes}

\* Header names.  Node hands over the names of a parsed request in lower
\* case; the code lower-cases them again before it compares.
HeaderNames == {"x-api-key", "authorization", "X-Api-Key", "user-agent"}

toLowerCase(name) ==
    IF name = "X-Api-Key" THEN "x-api-key" ELSE name

\* String.prototype.substring(from, to): characters from..to-1, counted
\* from 0.
substring(v, from, to) ==
    SubSeq(v, from + 1, Min(to, Len(v)))

Dots == <<".", ".", ".">>

maskSensitiveData_LastFive(v) ==
    IF v = <<>> THEN v
    ELSE IF Len(v) > 20
    THEN substring(v, 0, 10) \o Dots \o substring(v, Len(v) - 5, Len(v))
    ELSE IF Len(v) > 10 THEN substring(v, 0, 6) \o Dots
    ELSE v

\* maskSensitiveData(value), for a string.
maskSensitiveData(v) ==
    IF v = <<>> THEN v
    ELSE IF Len(v) > 20
    THEN substring(v, 0, 10) \o Dots \o substring(v, Len(v) - 4, Len(v))
    ELSE IF Len(v) > 10 THEN substring(v, 0, 6) \o Dots
    ELSE v

Sensitive(name) ==
    toLowerCase(name) \in {"x-api-key", "authorization"}

\* startRequest: the header as the record keeps it.
maskedHeaders(name, v) ==
    IF Sensitive(name) THEN maskSensitiveData(v) ELSE v

\* The line 'Headers from Claude Code' logs for the header, at level INFO.
HeaderLine(name, v) ==
    <<"  ", name, ": ">>
        \o (IF Sensitive(name)
            THEN (IF Len(v) > 10 THEN substring(v, 0, 10) \o Dots ELSE v)
            ELSE v)

\* getForwardedHeaders: the header is forwarded when its name is one of the
\* five looked up and its value is not empty.
Forwarded(name, v) ==
    /\ name \in {"x-api-key", "anthropic-version", "anthropic-beta",
                 "authorization", "user-agent"}
    /\ v # <<>>

\* handleStreamingResponse: 'Headers being sent: ' followed by
\* JSON.stringify of the forwarded headers, at level INFO.
ForwardLine(name, v) ==
    <<"Headers being sent: ", "{">>
        \o (IF Forwarded(name, v) THEN <<name, ":">> \o v \o <<",">> ELSE <<>>)
        \o <<"anthropic-version", ":", "2023-06-01", ",",
             "content-type", ":", "application/json", "}">>

\* The lines the handler logs about the header before it awaits the
\* upstream: none in translated mode, the header line in direct mode,
\* followed by the forwarded headers when the request streams.
HeaderLogs(mode, stream, name, v) ==
    IF mode = "openrouter" THEN <<>>
    ELSE <<HeaderLine(name, v)>>
             \o (IF stream THEN <<ForwardLine(name, v)>> ELSE <<>>)

\* A request arrives with the header.
HeaderInit ==
    \E name \in HeaderNames, v \in HeaderValues, stream \in BOOLEAN,
       mode \in ProxyModes :
        hdr = [phase |-> "received", name |-> name, value |-> v,
               stream |-> stream, mode |-> mode, stored |-> <<>>, logs |-> <<>>]

\* app.post('/v1/messages') up to its first await: startRequest stores the
\* masked header and the handler logs.
HandleHeaders ==
    /\ hdr.phase = "received"
    /\ hdr' = [hdr EXCEPT
                  !.phase = "handled",
                  !.stored = maskedHeaders(hdr.name, hdr.value),
                  !.logs = HeaderLogs(hdr.mode, hdr.stream, hdr.name, hdr.value)]

----------------------------------------------------------------------------
\* Failure replies of translated mode (OpenRouterHandler, src/routers/
\* openrouter.js): what the client is told when the request fails before
\* anything was streamed.

VARIABLES
    failure                \* one failing request: path, upstream message, reply

\* Length of the longest filler put around a secret in an upstream message.
MaxPad == 200

\* The most the sanitizer keeps of a message before it appends "...".
KeptLength == 200

\* The shortest run of key characters the sanitizer takes for a secret.
SecretLength == 20

Pad(n) == [i \in 1..n |-> "."]

SkKey(n) == <<"s", "k", "-">> \o [i \in 1..n |-> "a"]

BearerToken(n) == <<"B", "e", "a", "r", "e", "r", " ">> \o [i \in 1..n |-> "a"]

\* Upstream messages: nothing, or filler around at most one secret of 19, 20
\* or 24 key characters.  They hold no path and no 'api key' or 'token' word.
Secrets ==
    {<<>>} \cup {SkKey(n) : n \in {19, 20, 24}}
           \cup {BearerToken(n) : n \in {19, 20, 24}}

Messages ==
    {Pad(n) \o x \o Pad(m) : n \in {0, 5}, x \in Secrets, m \in {0, 1, 176, MaxPad}}

\* The characters of the messages that match [a-zA-Z0-9-_].
KeyChars == {"a", "s", "k", "-", "B", "e", "r"}

\* Length of the longest run of key characters of m that starts at i.
Run(m, i) ==
    Max(0, CHOOSE n \in 0..(Len(m) - i + 1) :
               /\ \A j \in i..(i + n - 1) : m[j] \in KeyChars
               /\ (i + n > Len(m) \/ m[i + n] \notin KeyChars))

\* Length of the run of white space of m that starts at i.
Blanks(m, i) ==
    Max(0, CHOOSE n \in 0..(Len(m) - i + 1) :
               /\ \A j \in i..(i + n - 1) : m[j] = " "
               /\ (i + n > Len(m) \/ m[i + n] # " "))

\* m has word w at position i.
At(m, i, w) ==
    i + Len(w) - 1 <= Len(m) /\ SubSeq(m, i, i + Len(w) - 1) = w

\* /sk-[a-zA-Z0-9-_]{20,}/ matches m at i.
SkAt(m, i) ==
    At(m, i, <<"s", "k", "-">>) /\ Run(m, i + 3) >= SecretLength

\* /Bearer\s+[a-zA-Z0-9-_]{20,}/ matches m at i.
BearerAt(m, i) ==
    /\ At(m, i, <<"B", "e", "a", "r", "e", "r">>)
    /\ Blanks(m, i + 6) >= 1
    /\ Run(m, i + 6 + Blanks(m, i + 6)) >= SecretLength

RECURSIVE ReplaceSk(_)
\* message.replace(/sk-[a-zA-Z0-9-_]{20,}/g, 'sk-***').
ReplaceSk(m) ==
    IF \A i \in 1..Len(m) : ~SkAt(m, i) THEN m
    ELSE LET i == CHOOSE k \in 1..Len(m) :
                      SkAt(m, k) /\ \A j \in 1..(k - 1) : ~SkAt(m, j)
             next == i + 3 + Run(m, i + 3)
         IN  SubSeq(m, 1, i - 1) \o <<"s", "k", "-", "*", "*", "*">>
                 \o ReplaceSk(SubSeq(m, next, Len(m)))

RECURSIVE ReplaceBearer(_)
\* message.replace(/Bearer\s+[a-zA-Z0-9-_]{20,}/g, 'Bearer ***').
ReplaceBearer(m) ==
    IF \A i \in 1..Len(m) : ~BearerAt(m, i) THEN m
    ELSE LET i == CHOOSE k \in 1..Len(m) :
                      BearerAt(m, k) /\ \A j \in 1..(k - 1) : ~BearerAt(m, j)
             next == i + 6 + Blanks(m, i + 6) + Run(m, i + 6 + Blanks(m, i + 6))
         IN  SubSeq(m, 1, i - 1)
                 \o <<"B", "e", "a", "r", "e", "r", " ", "*", "*", "*">>
                 \o ReplaceBearer(SubSeq(m, next, Len(m)))

Generic == <<"An error occurred while processing your request">>

\* sanitizeErrorMessage(message): the generic text for an empty message;
\* otherwise the secrets are replaced and a message longer than 200
\* characters is cut to its first 200 followed by "...".  The three other
\* replacements (paths, 'api key', 'token') leave the messages drawn here as
\* they are.
sanitizeErrorMessage(m) ==
    IF m = <<>> THEN Generic
    ELSE LET sanitized == ReplaceBearer(ReplaceSk(m))
         IN  IF Len(sanitized) > KeptLength
             THEN substring(sanitized, 0, KeptLength) \o Dots
             ELSE sanitized

\* The ways a translated request fails before the stream starts:
\*   status   the upstream answers with a non-2xx status and the message,
\*            in a JSON error body or as plain text (sanitizeError);
\*   error    the upstream answers 200 with an error object: in the JSON body
\*            of a non-streaming request, in the first frame of a stream;
\*   fetch    fetch rejects with the message.
FailurePaths == {"status", "error", "fetch"}

\* The error string of the reply.  handleRequest sanitizes on every path;
\* handleStreamingRequest sanitizes the body of a non-2xx answer, and its
\* catch block replies with err.message as it is.
ErrorString(stream, path, m) ==
    IF path = "status" \/ ~stream THEN sanitizeErrorMessage(m) ELSE m

\* The status of the reply: the upstream's (here 429) or 500.
ErrorStatus(path) ==
    IF path = "status" THEN 429 ELSE 500

FailureInit ==
    \E stream \in BOOLEAN, path \in FailurePaths, m \in Messages :
        failure = [stream |-> stream, path |-> path, message |-> m,
                   reply |-> <<>>]

\* The handler fails and replies.
FailureReply ==
    /\ failure.reply = <<>>
    /\ failure' = [failure EXCEPT !.reply =
                      <<[status |-> ErrorStatus(failure.path),
                         error |-> ErrorString(failure.stream, failure.path,
                                               failure.message)]>>]

----------------------------------------------------------------------------
\* The request translator of translated mode: convertRequestInline
\* (src/routers/openrouter.js), which both handlers call, and
\* OpenRouterConverter.mapModel (src/converters/openrouter.js).  An absent
\* field (undefined) is <<>>, a present one <<value>>; a string is the
\* sequence of its pieces, the empty string <<>>.

VARIABLES
    xlate                  \* one request body and the upstream request built from it

\* Longest array of blocks of a system field or of a message content.
MaxBlocks == 2

\* Longest messages array.
MaxMessages == 2

\* Model names as the pieces 'includes' can find in them.
ModelNames ==
    {<<"claude-3-5-", "sonnet", "-20241022">>, <<"Claude-", "Sonnet", "-4">>,
     <<"claude-3-", "opus">>, <<"claude-3-5-", "haiku">>, <<"gpt-4">>}

\* String.prototype.toLowerCase, on the pieces of a model name.
LowerCased(name) ==
    [i \in 1..Len(name) |->
        IF name[i] = "Sonnet" THEN "sonnet"
        ELSE IF name[i] = "Claude-" THEN "claude-"
        ELSE name[i]]

\* String.prototype.includes.
Includes(name, word) ==
    \E i \in 1..Len(name) : name[i] = word

\* The configuration the converter holds.
Converters ==
    [defaultModel : {"anthropic/claude-3.5-sonnet"},
     modelMapping : [sonnet : UpstreamModels,
                     opus : {"anthropic/claude-3-opus"},
                     haiku : {"anthropic/claude-3.5-haiku"}]]

\* mapModel(anthropicModel), under the converter's configuration cfg; the
\* result is the upstream model name, <<name>>, or the input name.
mapModel(cfg, model) ==
    IF model = <<>> THEN <<cfg.defaultModel>>
    ELSE LET modelLower == LowerCased(model[1])
         IN  IF Includes(modelLower, "sonnet") THEN <<cfg.modelMapping.sonnet>>
             ELSE IF Includes(modelLower, "opus") THEN <<cfg.modelMapping.opus>>
             ELSE IF Includes(modelLower, "haiku") THEN <<cfg.modelMapping.haiku>>
             ELSE model

\* The blocks of a message content.
ContentBlocks ==
    {[type |-> "text", text |-> <<<<"A">>>>, content |-> <<>>, id |-> <<>>,
      tool_use_id |-> <<>>],
     [type |-> "tool_use", text |-> <<>>, content |-> <<>>, id |-> <<"tu1">>,
      tool_use_id |-> <<>>],
     [type |-> "tool_result", text |-> <<>>, content |-> <<<<"R">>>>, id |-> <<>>,
      tool_use_id |-> <<"tu1">>],
     [type |-> "tool_result", text |-> <<>>, content |-> <<<<"R">>>>, id |-> <<>>,
      tool_use_id |-> <<>>]}

\* The blocks of a system field: text blocks, one of them with empty text.
SystemBlocks ==
    {[type |-> "text", text |-> <<t>>] : t \in {<<>>, <<"A">>, <<"B">>}}

\* A field that is a string or an array of blocks.
StringOf(text) == [kind |-> "string", text |-> text, blocks |-> <<>>]

ArrayOf(blocks) == [kind |-> "array", text |-> <<>>, blocks |-> blocks]

UpTo(S, n) == UNION {[1..k -> S] : k \in 0..n}

Systems ==
    {<<>>} \cup {<<StringOf(t)>> : t \in {<<>>, <<"S">>}}
           \cup {<<ArrayOf(b)>> : b \in UpTo(SystemBlocks, MaxBlocks)}

Contents ==
    {StringOf(<<"hi">>)} \cup {ArrayOf(b) : b \in UpTo(ContentBlocks, MaxBlocks)}

InputMessages == [role : {"user", "assistant"}, content : Contents]

MessageLists == UpTo(InputMessages, MaxMessages) \ {<<>>}

\* The scalar fields of a request.
Settings ==
    [model : {<<>>} \cup {<<n>> : n \in ModelNames},
     max_tokens : {<<>>, <<100>>},
     temperature : {<<>>, <<0>>, <<2>>},
     top_p : {<<>>, <<1>>},
     stop_sequences : {<<>>, <<<<"END">>>>},
     stream : {<<>>, <<TRUE>>, <<FALSE>>}]

PlainSettings ==
    [model |-> <<<<"gpt-4">>>>, max_tokens |-> <<100>>, temperature |-> <<>>,
     top_p |-> <<>>, stop_sequences |-> <<>>, stream |-> <<>>]

PlainMessages == <<[role |-> "user", content |-> StringOf(<<"hi">>)]>>

\* Request bodies: every system field, every messages array and every
\* combination of the scalar fields, each with the others plain.
Payloads ==
    {[system |-> y, messages |-> PlainMessages, settings |-> PlainSettings] :
         y \in Systems}
    \cup {[system |-> <<>>, messages |-> m, settings |-> PlainSettings] :
              m \in MessageLists}
    \cup {[system |-> <<>>, messages |-> PlainMessages, settings |-> g] :
              g \in Settings}

RECURSIVE join(_)
\* Array.prototype.join(' ') of an array of strings, undefined counting as
\* the empty string.
join(items) ==
    IF items = <<>> THEN <<>>
    ELSE IF Len(items) = 1 THEN items[1]
    ELSE items[1] \o <<" ">> \o join(Tail(items))

\* item.text, or the empty string join() makes of undefined.
TextOf(item) == IF item.text = <<>> THEN <<>> ELSE item.text[1]

\* normalizeContent(content) of convertRequestInline: a string as it is, an
\* array as the texts of all its items joined by a blank.
normalizeContent(content) ==
    IF content.kind = "string" THEN content.text
    ELSE join([i \in 1..Len(content.blocks) |-> TextOf(content.blocks[i])])

\* The system messages: one for each block of an array whose text is not
\* empty; a system field that is not an array adds nothing.
SystemMessages(system) ==
    IF system = <<>> \/ system[1].kind # "array" THEN <<>>
    ELSE LET texts == [i \in 1..Len(system[1].blocks) |->
                          TextOf(system[1].blocks[i])]
             kept == SelectSeq(texts, LAMBDA t : t # <<>>)
         IN  [i \in 1..Len(kept) |->
                 [role |-> "system", content |-> <<kept[i]>>,
                  tool_calls |-> <<>>, tool_call_id |-> <<>>]]

BlocksOf(msg) ==
    IF msg.content.kind = "array" THEN msg.content.blocks ELSE <<>>

\* newMsg: the role, the normalized content when it is not empty, the tool
\* calls when there are any; pushed when it has either.
MainMessage(msg) ==
    LET uses == SelectSeq(BlocksOf(msg), LAMBDA b : b.type = "tool_use")
        toolCalls == [i \in 1..Len(uses) |-> [id |-> uses[i].id, type |-> "function"]]
        normalized == normalizeContent(msg.content)
    IN  IF normalized = <<>> /\ toolCalls = <<>> THEN <<>>
        ELSE <<[role |-> msg.role,
                content |-> IF normalized = <<>> THEN <<>> ELSE <<normalized>>,
                tool_calls |-> toolCalls, tool_call_id |-> <<>>]>>

\* a || b, for two fields that hold strings: a unless it is absent or empty.
OrElse(a, b) ==
    IF a # <<>> /\ a[1] # <<>> THEN a ELSE b

\* One role=tool message for each tool_result block of the message, with
\* content toolResult.text || toolResult.content and tool_call_id the
\* block's tool_use_id, absent when the block has none.
ToolMessages(msg) ==
    LET results == SelectSeq(BlocksOf(msg), LAMBDA b : b.type = "tool_result")
    IN  [i \in 1..Len(results) |->
            [role |-> "tool", content |-> OrElse(results[i].text, results[i].content),
             tool_calls |-> <<>>, tool_call_id |-> results[i].tool_use_id]]

RECURSIVE Translated(_)
\* payload.messages.forEach: the main message, then the tool messages.
Translated(messages) ==
    IF messages = <<>> THEN <<>>
    ELSE MainMessage(Head(messages)) \o ToolMessages(Head(messages))
             \o Translated(Tail(messages))

\* convertRequestInline(payload), without the tools.
convertRequestInline(cfg, payload) ==
    [model |-> mapModel(cfg, payload.settings.model),
     messages |-> SystemMessages(payload.system) \o Translated(payload.messages),
     max_tokens |-> payload.settings.max_tokens,
     temperature |-> IF payload.settings.temperature # <<>>
                     THEN payload.settings.temperature ELSE <<1>>,
     stream |-> <<payload.settings.stream = <<TRUE>>>>,
     top_p |-> <<>>,
     stop |-> <<>>]

\* The configuration of a converter whose sonnet model is m.
ConverterWith(m) ==
    [defaultModel |-> "anthropic/claude-3.5-sonnet",
     modelMapping |-> [sonnet |-> m, opus |-> "anthropic/claude-3-opus",
                       haiku |-> "anthropic/claude-3.5-haiku"]]

\* POST /v1/messages with the model name (<<>> when the body has none), the
\* configuration being in openrouter mode: the handler maps the model with
\* the configuration its converter holds.  configured is the sonnet model of
\* the configuration manager at that moment.
MapRequestModel(name) ==
    /\ config.mem.proxyMode = "openrouter"
    /\ config' = [config EXCEPT !.mapped =
                     <<[name |-> name,
                        model |-> mapModel(ConverterWith(config.converter), name),
                        configured |-> config.mem.sonnet]>>]

\* A request arrives in translated mode.
TranslateInit ==
    \E cfg \in Converters, payload \in Payloads :
        xlate = [converter |-> cfg, payload |-> payload, sent |-> <<>>]

\* handleRequest / handleStreamingRequest build the upstream request.
Translate ==
    /\ xlate.sent = <<>>
    /\ xlate' = [xlate EXCEPT
                    !.sent = <<convertRequestInline(xlate.converter, xlate.payload)>>]

----------------------------------------------------------------------------
\* The read side of the store: getAll (src/monitor/store.js) and the routes
\* GET /api/monitor/requests, /api/monitor/stats and /api/monitor/export
\* (src/server.js) that answer from it.  An absent query parameter is <<>>.

VARIABLES
    query                  \* a store, one GET of the monitor API and its reply

\* Largest number of records of the small stores explored.
MaxRecords == 3
\* Largest page asked for.
MaxPage == 3

DefaultLimit == 50
Hour == 3600000
Day == 86400000
Week == 604800000

RecordModels == {"claude-3-5-sonnet", "claude-3-opus"}
RecordStatuses == {"pending", "success", "error"}
\* Ages of the records when the GET arrives, in milliseconds.
Ages == {0, Hour + 1, Week + 1}
Now == Week + 2

\* A record as startRequest and endRequest leave it, with the model name of
\* its request body.
Stored(p, status, model, stamp) ==
    LET r == requestData(p, stamp)
    IN  ("model" :> model) @@
        [r EXCEPT !.status = status,
                  !.response = IF status = "success" THEN <<200>>
                               ELSE IF status = "error" THEN <<500>> ELSE <<>>,
                  !.duration = IF status = "pending" THEN <<>> ELSE <<1>>]

\* A store that evicted nothing, holding the given records.
StoreOf(requests) ==
    LET Count(s) == Len(SelectSeq(requests, LAMBDA r : r.status = s))
    IN  [requests |-> requests,
         maxSize |-> DefaultMaxSize,
         stats |-> [totalRequests |-> Len(requests),
                    successCount |-> Count("success"),
                    errorCount |-> Count("error"),
                    totalDuration |-> Count("success") + Count("error")],
         issued |-> Len(requests),
         emitted |-> <<>>]

ModelOf(p) == IF p % 2 = 1 THEN "claude-3-5-sonnet" ELSE "claude-3-opus"

\* Records are kept in the order they were started: ages never grow.
SmallStores ==
    UNION {{StoreOf([p \in 1..n |-> Stored(p, st[p], ModelOf(p), Now - age[p])]) :
               st \in [1..n -> RecordStatuses],
               age \in {a \in [1..n -> Ages] :
                           \A p \in 1..(n - 1) : a[p] >= a[p + 1]}} :
           n \in 0..MaxRecords}

\* One record more than a page holds by default.
LargeStores ==
    {StoreOf([p \in 1..(DefaultLimit + 1) |->
                 Stored(p, IF mixed THEN CASE p % 3 = 0 -> "pending"
                                           [] p % 3 = 1 -> "success"
                                           [] OTHER -> "error"
                           ELSE "success",
                        "claude-3-5-sonnet", Now)]) :
        mixed \in BOOLEAN}

\* filters.x || d
OrDefault(x, d) == IF x = <<>> \/ x = <<0>> THEN d ELSE x[1]

InRange(range, age) ==
    CASE range = "1h" -> age <= Hour
      [] range = "24h" -> age <= Day
      [] range = "7d" -> age <= Week
      [] OTHER -> TRUE

Matches(r, filters, now) ==
    /\ filters.status # <<>> => r.status = filters.status[1]
    /\ filters.model # <<>> => r.model = filters.model[1]
    /\ filters.timeRange # <<>> => InRange(filters.timeRange[1], now - r.timestamp)

\* results.sort((a, b) => new Date(b.timestamp) - new Date(a.timestamp)):
\* the sort is stable, so records of one timestamp keep their order.
sortNewestFirst(rs) ==
    LET n == Len(rs)
        rank == [i \in 1..n |->
                    Cardinality({j \in 1..n : rs[j].timestamp > rs[i].timestamp})
                    + Cardinality({j \in 1..(i - 1) :
                                      rs[j].timestamp = rs[i].timestamp}) + 1]
    IN  [k \in 1..n |-> rs[CHOOSE i \in 1..n : rank[i] = k]]

\* Array.prototype.slice(start, end): a negative index counts from the end.
slice(s, start, end) ==
    LET n == Len(s)
        rel(k) == IF k < 0 THEN Max(n + k, 0) ELSE Min(k, n)
    IN  SubSeq(s, rel(start) + 1, rel(end))

\* getAll that takes the records in stored order, oldest first.
getAll_StoredOrder(S, filters, now) ==
    LET results == SelectSeq(S.requests, LAMBDA r : Matches(r, filters, now))
        page == OrDefault(filters.page, 1)
        limit == OrDefault(filters.limit, DefaultLimit)
        start == (page - 1) * limit
    IN  [data |-> slice(results, start, start + limit),
         total |-> Len(results), page |-> page, limit |-> limit]

\* getAll(filters)
getAll(S, filters, now) ==
    LET results == sortNewestFirst(
                       SelectSeq(S.requests, LAMBDA r : Matches(r, filters, now)))
        page == OrDefault(filters.page, 1)
        limit == OrDefault(filters.limit, DefaultLimit)
        start == (page - 1) * limit
    IN  [data |-> slice(results, start, start + limit),
         total |-> Len(results), page |-> page, limit |-> limit]

\* The statistics the stats route computes from a list of records.
statsOf(requests) ==
    LET n == Len(requests)
        Ok(r) == (r.response # <<>> /\ r.response[1] >= 200 /\ r.response[1] < 300)
                 \/ r.status = "success"
        Bad(r) == ~Ok(r) /\ (\/ (r.response # <<>> /\ r.response[1] >= 400)
                             \/ r.status = "error" \/ r.error # <<>>)
        successCount == Len(SelectSeq(requests, Ok))
        Total[k \in 0..n] ==
            IF k = 0 THEN 0
            ELSE Total[k - 1] + OrDefault(requests[k].duration, 0)
    IN  [totalRequests |-> n,
         successCount  |-> successCount,
         errorCount    |-> Len(SelectSeq(requests, Bad)),
         successRate   |-> IF n > 0
                           THEN [hundredths |-> Round(successCount * 10000, n),
                                 decimals |-> 2, unit |-> "%"]
                           ELSE [hundredths |-> 0, decimals |-> 0, unit |-> "%"],
         avgDuration   |-> IF n > 0 THEN <<Round(Total[n], n), "ms">>
                           ELSE <<0, "ms">>,
         activeRequests |-> Len(StillPending(requests))]

NoFilters == [status |-> <<>>, model |-> <<>>, timeRange |-> <<>>,
              page |-> <<>>, limit |-> <<>>]

\* The query strings explored: filter values and absent filters.
StatusParams == {<<>>, <<"success">>, <<"pending">>}
ModelParams == {<<>>, <<"claude-3-5-sonnet">>}
RangeParams == {<<>>, <<"1h">>, <<"all">>}
Pages == 0..MaxPage
Limits == 0..2
FilterParams ==
    {[NoFilters EXCEPT !.status = s, !.model = m, !.timeRange = t] :
        s \in StatusParams, m \in ModelParams, t \in RangeParams}

QueryInit ==
    \E S \in SmallStores \cup LargeStores :
        query = [store |-> S, now |-> Now, kind |-> "none",
                 filters |-> NoFilters, reply |-> <<>>]

\* app.get('/api/monitor/requests'): parseInt(page) || 1, parseInt(limit) || 50
GetRequests(f, page, limit) ==
    /\ query.kind = "none"
    /\ LET filters == [f EXCEPT !.page = <<OrDefault(<<page>>, 1)>>,
                                !.limit = <<OrDefault(<<limit>>, DefaultLimit)>>]
       IN  query' = [query EXCEPT
                        !.kind = "requests", !.filters = filters,
                        !.reply = <<getAll(query.store, filters, query.now)>>]

\* app.get('/api/monitor/stats')
GetStats(f) ==
    /\ query.kind = "none"
    /\ query' = [query EXCEPT
                    !.kind = "stats", !.filters = f,
                    !.reply = IF f # NoFilters
                              THEN <<statsOf(getAll(query.store, f, query.now).data)>>
                              ELSE <<getStats(query.store)>>]

\* app.get('/api/monitor/export')
GetExport(f) ==
    /\ query.kind = "none"
    /\ LET filtered == getAll(query.store, f, query.now)
       IN  query' = [query EXCEPT
                        !.kind = "export", !.filters = f,
                        !.reply = <<[stats |-> getStats(query.store),
                                     requests |-> filtered.data,
                                     total |-> filtered.total,
                                     filters |-> f]>>]

----------------------------------------------------------------------------
\* The two pure conversions of translated mode that the request translator
\* leaves out: removeUriFormat, applied to the input_schema of each tool, and
\* convertResponseInline, applied to the upstream reply that is not streamed
\* (src/routers/openrouter.js).  A JSON object is a function from its keys; a
\* null or absent member is <<>>, a present one <<value>>.

VARIABLES
    conv                   \* one input of a conversion and what came out

\* Deepest nesting of the schemas explored, most tool calls of a reply.
MaxDepth == 2
MaxCalls == 2

Has(node, key) == key \in DOMAIN node
UriString(node) ==
    /\ Has(node, "type") /\ node.type = "string"
    /\ Has(node, "format") /\ node.format = "uri"

Leaves ==
    {[type |-> "string"], [type |-> "string", format |-> "uri"],
     [type |-> "string", format |-> "date"],
     [type |-> "integer", format |-> "uri", description |-> "uri"]}

\* The schemas one level above the schemas of C: an object with a property,
\* an array, an alternative, and a uri string that carries a sub-schema.
Above(C) ==
    C \cup {[type |-> "object", properties |-> [link |-> c]] : c \in C}
      \cup {[type |-> "array", items |-> c] : c \in C}
      \cup {[anyOf |-> <<c, [type |-> "string", format |-> "uri"]>>] : c \in C}
      \cup {[type |-> "string", format |-> "uri", items |-> c] : c \in C}

RECURSIVE SchemasOf(_)
SchemasOf(depth) == IF depth = 0 THEN Leaves ELSE Above(SchemasOf(depth - 1))

\* removeUriFormat(schema): a string node of format uri is returned without
\* its format key and as it is otherwise; any other node is rebuilt key by
\* key from its cleaned members (a scalar is returned as it is).
RECURSIVE removeUriFormat(_)
removeUriFormat(schema) ==
    IF UriString(schema)
    THEN [k \in DOMAIN schema \ {"format"} |-> schema[k]]
    ELSE [k \in DOMAIN schema |->
            IF k = "properties"
            THEN [p \in DOMAIN schema[k] |-> removeUriFormat(schema[k][p])]
            ELSE IF k \in {"anyOf", "allOf", "oneOf"}
            THEN [i \in DOMAIN schema[k] |-> removeUriFormat(schema[k][i])]
            ELSE IF k \in {"items", "additionalProperties"}
            THEN removeUriFormat(schema[k])
            ELSE schema[k]]

\* String.prototype.replace('chatcmpl', 'msg') on a string kept in pieces
replace(s, from, to) ==
    IF \E i \in 1..Len(s) : s[i] = from
    THEN LET k == CHOOSE i \in 1..Len(s) :
                      s[i] = from /\ \A j \in 1..(i - 1) : s[j] # from
         IN  [s EXCEPT ![k] = to]
    ELSE s

\* JSON.parse of the arguments text of a tool call: the object, or a
\* SyntaxError for a text that is not JSON.
ArgumentTexts == {"{}", "{\"q\":1}", "{\"q\":"}
JSONparse(text) ==
    CASE text = "{}" -> [ok |-> TRUE, value |-> [q |-> <<>>]]
      [] text = "{\"q\":1}" -> [ok |-> TRUE, value |-> [q |-> <<1>>]]
      [] OTHER -> [ok |-> FALSE, value |-> "SyntaxError"]

FinishReasons ==
    {<<>>} \cup {<<r>> : r \in {"stop", "length", "tool_calls", "function_call",
                               "content_filter", "safety", "eos"}}
\* message.content: null, empty, blank, text, text after a blank.
MessageContents == {<<>>, <<"">>, <<" ">>, <<"hi">>, <<" hi">>}
ToolCalls ==
    {[id |-> "call_1", name |-> "search", arguments |-> a] : a \in ArgumentTexts}
Replies ==
    [id : {<<>>, <<<<"chatcmpl", "-1">>>>},
     finish_reason : FinishReasons,
     content : MessageContents,
     tool_calls : {<<>>} \cup {<<calls>> : calls \in UpTo(ToolCalls, MaxCalls)},
     usage : {<<>>, <<[prompt_tokens |-> 3, completion_tokens |-> 5]>>}]

\* const mapStopReason of convertResponseInline; null is <<>>
mapStopReasonInline(finishReason) ==
    CASE finishReason = <<"tool_calls">> -> "tool_use"
      [] finishReason = <<"stop">> -> "end_turn"
      [] finishReason = <<"length">> -> "max_tokens"
      [] OTHER -> "end_turn"

\* convertResponseInline(data, model): the Anthropic message, or the
\* exception of JSON.parse.  A message id made from Math.random is "random".
convertResponseInline(data, model) ==
    LET toolCalls == IF data.tool_calls = <<>> THEN <<>> ELSE data.tool_calls[1]
        parsed == [i \in 1..Len(toolCalls) |-> JSONparse(toolCalls[i].arguments)]
        content ==
            <<[type |-> "text", text |-> data.content]>>
            \o [i \in 1..Len(toolCalls) |->
                   [type |-> "tool_use", id |-> toolCalls[i].id,
                    name |-> toolCalls[i].name, input |-> parsed[i].value]]
    IN  IF \E i \in 1..Len(toolCalls) : ~parsed[i].ok
        THEN [threw |-> TRUE, message |-> <<>>]
        ELSE [threw |-> FALSE,
              message |-> <<[content |-> content,
                             id |-> IF data.id # <<>>
                                    THEN replace(data.id[1], "chatcmpl", "msg")
                                    ELSE <<"msg_", "random">>,
                             model |-> model,
                             role |-> "assistant",
                             stop_reason |-> mapStopReasonInline(data.finish_reason),
                             stop_sequence |-> <<>>,
                             type |-> "message",
                             usage |-> [input_tokens |->
                                           IF data.usage # <<>>
                                           THEN data.usage[1].prompt_tokens ELSE 0,
                                        output_tokens |->
                                           IF data.usage # <<>>
                                           THEN data.usage[1].completion_tokens
                                           ELSE 0]]>>]

ConvertInit ==
    \/ \E schema \in SchemasOf(MaxDepth) :
          conv = [kind |-> "schema", input |-> schema, done |-> FALSE,
                  output |-> schema]
    \/ \E data \in Replies :
          conv = [kind |-> "reply", input |-> data, done |-> FALSE,
                  output |-> [threw |-> FALSE, message |-> <<>>]]

\* convertRequestInline: parameters: this.removeUriFormat(tool.input_schema)
CleanSchema ==
    /\ conv.kind = "schema" /\ ~conv.done
    /\ conv' = [conv EXCEPT !.done = TRUE, !.output = removeUriFormat(conv.input)]

\* handleRequest: convertResponseInline(data, openRouterRequest.model)
ConvertReply ==
    /\ conv.kind = "reply" /\ ~conv.done
    /\ conv' = [conv EXCEPT
                   !.done = TRUE,
                   !.output = convertResponseInline(conv.input,
                                                    "anthropic/claude-3.5-sonnet")]

----------------------------------------------------------------------------
\* What a running server takes from the configuration: the constants
\* src/server.js reads once when the module is loaded, and what the handlers
\* of POST /v1/messages read at each request.

VARIABLES
    live                   \* the configuration, the startup constants, the last upstream request

DefaultTimeout == 120000
MinTimeout == 1000

AnthropicUrls == {"https://api.anthropic.com", "https://gateway.example"}
RouterUrls == {"https://openrouter.ai/api", "https://router.example"}
Timeouts == {DefaultTimeout, 60000}

\* getDefaultConfig(): the routing fields, the environment given.
liveDefaults(baseUrl, timeout) ==
    [proxyMode |-> "anthropic", baseUrl |-> baseUrl, timeout |-> timeout,
     routerUrl |-> "https://openrouter.ai/api"]

\* Bodies of PUT /api/config: every field absent (<<>>) or present.
LiveUpdates ==
    [proxyMode : {<<>>} \cup {<<m>> : m \in ProxyModes \cup {"bogus"}},
     baseUrl : {<<>>} \cup {<<u>> : u \in AnthropicUrls},
     timeout : {<<>>} \cup {<<t>> : t \in Timeouts \cup {500}},
     routerUrl : {<<>>} \cup {<<u>> : u \in RouterUrls}]

\* validateConfig: the mode is one of the two, the timeout at least 1000.
validateLive(u) ==
    /\ u.proxyMode = <<>> \/ u.proxyMode[1] \in ProxyModes
    /\ u.timeout = <<>> \/ u.timeout[1] >= MinTimeout

\* const ANTHROPIC_BASE_URL = config.anthropic.baseUrl;
\* const REQUEST_TIMEOUT = config.anthropic.timeout;
startupConstants(c) ==
    [ANTHROPIC_BASE_URL |-> c.baseUrl, REQUEST_TIMEOUT |-> c.timeout]

LiveInit ==
    \E baseUrl \in AnthropicUrls, timeout \in Timeouts :
        live = [config |-> liveDefaults(baseUrl, timeout),
                startup |-> startupConstants(liveDefaults(baseUrl, timeout)),
                updated |-> FALSE, sent |-> <<>>]

\* updateConfig(updates), accepted or rejected by validateConfig.
LiveUpdate(u) ==
    live' = IF validateLive(u)
            THEN [live EXCEPT !.config = mergeDeep(@, u),
                              !.updated = @ \/ (mergeDeep(live.config, u) # live.config),
                              !.sent = <<>>]
            ELSE live

\* app.post('/v1/messages'): the mode is read from configManager.getConfig()
\* at the request; translated mode takes the OpenRouter base URL from the
\* current configuration and passes fetch no timeout; direct mode sends to
\* ANTHROPIC_BASE_URL with REQUEST_TIMEOUT.
upstreamRequest(l) ==
    IF l.config.proxyMode = "openrouter"
    THEN [mode |-> "openrouter", url |-> l.config.routerUrl, timeout |-> <<>>]
    ELSE [mode |-> "anthropic", url |-> l.startup.ANTHROPIC_BASE_URL,
          timeout |-> <<l.startup.REQUEST_TIMEOUT>>]

LivePost ==
    /\ live.sent = <<>>
    /\ live' = [live EXCEPT !.sent = <<upstreamRequest(live)>>]

----------------------------------------------------------------------------
\* The handlers that are not streaming, with a monitor connection open: the
\* store's emit runs the connection's listener inside the handler's try
\* block, so a listener that throws sends the handler to its catch block.

\* Direct, not streaming: endRequest, then res.json; catch: setError and a
\* reply with status 500.
ObservedDirectReply(status, throws) ==
    /\ Route("direct", FALSE) /\ proxy.px = "await"
    /\ LET after == IF status # 200 THEN store
                    ELSE endRequest(store, proxy.monitorId, status, clock)
           first == Deliver(sink, store, after, throws)
       IN  /\ store' = IF first.raised THEN setError(after, proxy.monitorId)
                        ELSE after
           /\ sink' = IF first.raised THEN Deliver(first, after, store', FALSE)
                       ELSE first
           /\ proxy' = [proxy EXCEPT
                !.px = "done", !.upstream = "closed",
                !.upstreamStatus = <<status>>,
                !.clientStatus = IF first.raised THEN <<500>> ELSE <<status>>,
                !.resEnds = @ + 1, !.lateWrites = Late(1)]

\* Translated, not streaming: endRequest, then the reply; catch:
\* handleError, which calls endRequest with status 500 and replies 500.
ObservedXlateReply(status, throws) ==
    /\ Route("openrouter", FALSE) /\ proxy.px = "await"
    /\ LET after == endRequest(store, proxy.monitorId, status, clock)
           first == Deliver(sink, store, after, throws)
       IN  /\ store' = IF first.raised
                        THEN endRequest(after, proxy.monitorId, 500, clock)
                        ELSE after
           /\ sink' = IF first.raised THEN Deliver(first, after, store', FALSE)
                       ELSE first
           /\ proxy' = [proxy EXCEPT
                !.px = "done", !.upstream = "closed",
                !.upstreamStatus = <<status>>,
                !.clientStatus = IF first.raised THEN <<500>> ELSE <<status>>,
                !.resEnds = @ + 1, !.lateWrites = Late(1)]

----------------------------------------------------------------------------
\* Specifications.  Each one leaves the variables of the others at rest.

StreamIdle ==
    Init

ReadsIdle == splits = 0

StoreIdle ==
    /\ store = RequestStore(DefaultMaxSize)
    /\ clock = 0
    /\ storeOps = 0

ProxyIdle == proxy = Listening("direct")

SinkIdle == sink = NoSink

\* The variables of the monitor connection and of the pure-function checks.
ConfigIdle ==
    config = [env |-> "", file |-> <<>>, mem |-> getDefaultConfig(""),
              converter |-> getDefaultConfig("").sonnet, mapped |-> <<>>]

HeaderIdle ==
    hdr = [phase |-> "handled", name |-> "user-agent", value |-> <<>>,
           stream |-> FALSE, mode |-> "anthropic", stored |-> <<>>,
           logs |-> <<>>]

FailureIdle ==
    failure = [stream |-> FALSE, path |-> "fetch", message |-> <<>>,
               reply |-> <<[status |-> 500, error |-> Generic]>>]

TranslateIdle ==
    xlate = [converter |->
                 [defaultModel |-> "anthropic/claude-3.5-sonnet",
                  modelMapping |-> [sonnet |-> "anthropic/claude-3.5-sonnet",
                                    opus |-> "anthropic/claude-3-opus",
                                    haiku |-> "anthropic/claude-3.5-haiku"]],
             payload |-> [system |-> <<>>, messages |-> PlainMessages,
                          settings |-> PlainSettings],
             sent |-> <<>>]

QueryIdle ==
    query = [store |-> StoreOf(<<>>), now |-> Now, kind |-> "none",
             filters |-> NoFilters, reply |-> <<>>]

LiveIdle ==
    live = [config |-> liveDefaults("https://api.anthropic.com", DefaultTimeout),
            startup |-> startupConstants(
                            liveDefaults("https://api.anthropic.com", DefaultTimeout)),
            updated |-> FALSE, sent |-> <<>>]

ConvertIdle ==
    conv = [kind |-> "schema", input |-> [type |-> "string"], done |-> TRUE,
            output |-> [type |-> "string"]]

moreVars == <<query, live, conv>>

MoreIdle == QueryIdle /\ LiveIdle /\ ConvertIdle

auxVars == <<sink, config, hdr, failure, xlate, moreVars>>

AuxIdle ==
    /\ SinkIdle /\ ConfigIdle /\ HeaderIdle /\ FailureIdle /\ TranslateIdle
    /\ MoreIdle

allVars == <<vars, splits, storeVars, proxy, auxVars>>

Next ==
    \/ SkippedLine /\ UNCHANGED <<splits, storeVars, proxy, auxVars>>
    \/ DoneSentinel /\ UNCHANGED <<splits, storeVars, proxy, auxVars>>
    \/ ErrorFrame /\ UNCHANGED <<splits, storeVars, proxy, auxVars>>
    \/ \E f \in DataFrames : DataFrame(f) /\ UNCHANGED <<splits, storeVars, proxy, auxVars>>
    \/ StreamEnd /\ UNCHANGED <<splits, storeVars, proxy, auxVars>>
    \/ ReadError /\ UNCHANGED <<splits, storeVars, proxy, auxVars>>

InitStream == Init /\ ReadsIdle /\ StoreIdle /\ ProxyIdle /\ AuxIdle

Spec == InitStream /\ [][Next]_allVars

StoreNext ==
    \/ \E tick \in {0, 1} : StartRequest(tick) /\ UNCHANGED <<vars, splits, proxy, auxVars>>
    \/ \E id \in SomeId, status \in Statuses, tick \in {0, 1} :
          EndRequest(id, status, tick) /\ UNCHANGED <<vars, splits, proxy, auxVars>>
    \/ \E id \in SomeId : AddStreamChunk(id) /\ UNCHANGED <<vars, splits, proxy, auxVars>>
    \/ \E id \in SomeId : SetMergedContent(id) /\ UNCHANGED <<vars, splits, proxy, auxVars>>
    \/ \E id \in SomeId : SetError(id) /\ UNCHANGED <<vars, splits, proxy, auxVars>>
    \/ Clear /\ UNCHANGED <<vars, splits, proxy, auxVars>>

InitStore == StoreInit /\ StreamIdle /\ ReadsIdle /\ ProxyIdle /\ AuxIdle

SpecStore == InitStore /\ [][StoreNext]_allVars

EvictNext ==
    \E tick \in {0, 1} : StartRequest(tick) /\ UNCHANGED <<vars, splits, proxy, auxVars>>

InitEvict == EvictInit /\ StreamIdle /\ ReadsIdle /\ ProxyIdle /\ AuxIdle

SpecEvict == InitEvict /\ [][EvictNext]_allVars

ProxyNext ==
    \/ \E s \in BOOLEAN : PostMessages(s) /\ UNCHANGED <<vars, splits, clock, storeOps, auxVars>>
    \/ \E status \in UpstreamStatuses :
          DirectReply(status) /\ UNCHANGED <<vars, splits, clock, storeOps, auxVars>>
    \/ \E kind \in Failures \cup {"internal"} :
          DirectFail(kind) /\ UNCHANGED <<vars, splits, clock, storeOps, auxVars>>
    \/ \E status \in UpstreamStatuses :
          StreamAnswer(status) /\ UNCHANGED <<vars, splits, clock, storeOps, auxVars>>
    \/ \E kind \in Failures :
          StreamFail(kind) /\ UNCHANGED <<vars, splits, clock, storeOps, auxVars>>
    \/ ErrBodyEnd /\ UNCHANGED <<vars, splits, clock, storeOps, auxVars>>
    \/ \E chunk \in Chunks :
          RelayData(chunk) /\ UNCHANGED <<vars, splits, clock, storeOps, auxVars>>
    \/ RelayEnd /\ UNCHANGED <<vars, splits, clock, storeOps, auxVars>>
    \/ \E kind \in Failures :
          RelayError(kind) /\ UNCHANGED <<vars, splits, clock, storeOps, auxVars>>
    \/ ClientClose /\ UNCHANGED <<vars, splits, clock, storeOps, auxVars>>
    \/ ResError /\ UNCHANGED <<vars, splits, clock, storeOps, auxVars>>
    \/ \E status \in UpstreamStatuses :
          XlateReply(status) /\ UNCHANGED <<vars, splits, clock, storeOps, auxVars>>
    \/ XlateFail /\ UNCHANGED <<vars, splits, clock, storeOps, auxVars>>
    \/ \E status \in UpstreamStatuses :
          XlateStreamAnswer(status) /\ UNCHANGED <<vars, splits, clock, storeOps, auxVars>>
    \/ XlateStreamFail /\ UNCHANGED <<vars, splits, clock, storeOps, auxVars>>
    \/ XlateFrame /\ UNCHANGED <<vars, splits, clock, storeOps, auxVars>>
    \/ XlateDone /\ UNCHANGED <<vars, splits, clock, storeOps, auxVars>>
    \/ XlateEof /\ UNCHANGED <<vars, splits, clock, storeOps, auxVars>>
    \/ XlateErrorFrame /\ UNCHANGED <<vars, splits, clock, storeOps, auxVars>>
    \/ XlateReadError /\ UNCHANGED <<vars, splits, clock, storeOps, auxVars>>

InitProxy == ProxyInit /\ StreamIdle /\ ReadsIdle /\ AuxIdle

SpecProxy == InitProxy /\ [][ProxyNext]_allVars

ReadsNext ==
    \/ SkippedLine /\ UNCHANGED <<splits, storeVars, proxy, auxVars>>
    \/ DoneSentinel /\ UNCHANGED <<splits, storeVars, proxy, auxVars>>
    \/ ErrorFrame /\ UNCHANGED <<splits, storeVars, proxy, auxVars>>
    \/ \E f \in CutFrames : DataFrame(f) /\ UNCHANGED <<splits, storeVars, proxy, auxVars>>
    \/ StreamEnd /\ UNCHANGED <<splits, storeVars, proxy, auxVars>>
    \/ ReadError /\ UNCHANGED <<splits, storeVars, proxy, auxVars>>
    \/ \E l \in CutLines : SplitLine(l) /\ UNCHANGED <<storeVars, proxy, auxVars>>

InitReads == Init /\ ReadsIdle /\ StoreIdle /\ ProxyIdle /\ AuxIdle

SpecReads == InitReads /\ [][ReadsNext]_allVars

EventsNext ==
    \/ Subscribe /\ UNCHANGED <<vars, splits, proxy, config, hdr, failure, xlate, moreVars>>
    \/ Unsubscribe /\ UNCHANGED <<vars, splits, proxy, config, hdr, failure, xlate, moreVars>>
    \/ \E throws \in BOOLEAN :
          StartRequest(1) /\ Publish(throws) /\ UNCHANGED <<vars, splits, proxy, config, hdr, failure, xlate, moreVars>>
    \/ \E id \in SomeId, status \in Statuses, throws \in BOOLEAN :
          EndRequest(id, status, 1) /\ Publish(throws)
              /\ UNCHANGED <<vars, splits, proxy, config, hdr, failure, xlate, moreVars>>
    \/ \E id \in SomeId, throws \in BOOLEAN :
          AddStreamChunk(id) /\ Publish(throws) /\ UNCHANGED <<vars, splits, proxy, config, hdr, failure, xlate, moreVars>>
    \/ \E id \in SomeId, throws \in BOOLEAN :
          SetError(id) /\ Publish(throws) /\ UNCHANGED <<vars, splits, proxy, config, hdr, failure, xlate, moreVars>>
    \/ \E id \in SomeId, throws \in BOOLEAN :
          SetMergedContent(id) /\ Publish(throws)
              /\ UNCHANGED <<vars, splits, proxy, config, hdr, failure, xlate, moreVars>>
    \/ \E throws \in BOOLEAN :
          Clear /\ Publish(throws) /\ UNCHANGED <<vars, splits, proxy, config, hdr, failure, xlate, moreVars>>

InitEvents ==
    /\ StoreInit /\ StreamIdle /\ ReadsIdle /\ ProxyIdle /\ SinkIdle
    /\ ConfigIdle /\ HeaderIdle /\ FailureIdle /\ TranslateIdle /\ MoreIdle

SpecEvents == InitEvents /\ [][EventsNext]_allVars

ConfigNext ==
    \/ \E u \in Updates, written \in BOOLEAN :
          UpdateConfig(u, written)
              /\ UNCHANGED <<vars, splits, storeVars, proxy, sink, hdr, failure, xlate, moreVars>>
    \/ \E mode \in ProxyModes \cup {"bogus"}, written \in BOOLEAN :
          SetProxyMode(mode, written)
              /\ UNCHANGED <<vars, splits, storeVars, proxy, sink, hdr, failure, xlate, moreVars>>
    \/ ReloadConfig /\ UNCHANGED <<vars, splits, storeVars, proxy, sink, hdr, failure, xlate, moreVars>>
    \/ \E written \in BOOLEAN :
          ResetToDefaults(written)
              /\ UNCHANGED <<vars, splits, storeVars, proxy, sink, hdr, failure, xlate, moreVars>>
    \/ \E u \in Updates, written \in BOOLEAN :
          ImportConfig(u, written)
              /\ UNCHANGED <<vars, splits, storeVars, proxy, sink, hdr, failure, xlate, moreVars>>
    \/ \E name \in {<<>>} \cup {<<n>> : n \in ModelNames} :
          MapRequestModel(name)
              /\ UNCHANGED <<vars, splits, storeVars, proxy, sink, hdr, failure, xlate, moreVars>>

InitConfig ==
    /\ ConfigInit /\ StreamIdle /\ ReadsIdle /\ StoreIdle /\ ProxyIdle
    /\ SinkIdle /\ HeaderIdle /\ FailureIdle /\ TranslateIdle /\ MoreIdle

SpecConfig == InitConfig /\ [][ConfigNext]_allVars

HeadersNext ==
    HandleHeaders /\ UNCHANGED <<vars, splits, storeVars, proxy, sink, config, failure, xlate, moreVars>>

InitHeaders ==
    /\ HeaderInit /\ StreamIdle /\ ReadsIdle /\ StoreIdle /\ ProxyIdle
    /\ SinkIdle /\ ConfigIdle /\ FailureIdle /\ TranslateIdle /\ MoreIdle

SpecHeaders == InitHeaders /\ [][HeadersNext]_allVars

FailuresNext ==
    FailureReply /\ UNCHANGED <<vars, splits, storeVars, proxy, sink, config, hdr, xlate, moreVars>>

InitFailures ==
    /\ FailureInit /\ StreamIdle /\ ReadsIdle /\ StoreIdle /\ ProxyIdle
    /\ SinkIdle /\ ConfigIdle /\ HeaderIdle /\ TranslateIdle /\ MoreIdle

SpecFailures == InitFailures /\ [][FailuresNext]_allVars

TranslateNext ==
    Translate
        /\ UNCHANGED <<vars, splits, storeVars, proxy, sink, config, hdr, failure, moreVars>>

InitTranslate ==
    /\ TranslateInit /\ StreamIdle /\ ReadsIdle /\ StoreIdle /\ ProxyIdle
    /\ SinkIdle /\ ConfigIdle /\ HeaderIdle /\ FailureIdle /\ MoreIdle

SpecTranslate == InitTranslate /\ [][TranslateNext]_allVars

QueryNext ==
    \/ \E f \in FilterParams, page \in Pages, limit \in Limits :
          GetRequests(f, page, limit)
              /\ UNCHANGED <<vars, splits, storeVars, proxy, sink, config, hdr, failure, xlate, live, conv>>
    \/ \E f \in FilterParams :
          GetStats(f)
              /\ UNCHANGED <<vars, splits, storeVars, proxy, sink, config, hdr, failure, xlate, live, conv>>
    \/ \E f \in FilterParams :
          GetExport(f)
              /\ UNCHANGED <<vars, splits, storeVars, proxy, sink, config, hdr, failure, xlate, live, conv>>

InitQuery ==
    /\ QueryInit /\ StreamIdle /\ ReadsIdle /\ StoreIdle /\ ProxyIdle
    /\ SinkIdle /\ ConfigIdle /\ HeaderIdle /\ FailureIdle /\ TranslateIdle
    /\ LiveIdle /\ ConvertIdle

SpecQuery == InitQuery /\ [][QueryNext]_allVars

\* The reads of the relay explored here: a whole line, a line cut in two.
RelayChunks == {<<"x", "\n">>, <<"x">>, <<"\n">>}

RelayNext ==
    \/ PostMessages(TRUE) /\ UNCHANGED <<vars, splits, clock, storeOps, auxVars>>
    \/ \E status \in UpstreamStatuses :
          StreamAnswer(status) /\ UNCHANGED <<vars, splits, clock, storeOps, auxVars>>
    \/ \E kind \in Failures :
          StreamFail(kind) /\ UNCHANGED <<vars, splits, clock, storeOps, auxVars>>
    \/ ErrBodyEnd /\ UNCHANGED <<vars, splits, clock, storeOps, auxVars>>
    \/ \E chunk \in RelayChunks :
          RelayData(chunk) /\ UNCHANGED <<vars, splits, clock, storeOps, auxVars>>
    \/ RelayEnd /\ UNCHANGED <<vars, splits, clock, storeOps, auxVars>>
    \/ \E kind \in Failures :
          RelayError(kind) /\ UNCHANGED <<vars, splits, clock, storeOps, auxVars>>
    \/ ClientClose /\ UNCHANGED <<vars, splits, clock, storeOps, auxVars>>
    \/ ResError /\ UNCHANGED <<vars, splits, clock, storeOps, auxVars>>
    \/ Redeliver /\ UNCHANGED <<vars, splits, clock, storeOps, auxVars>>

RelayInit ==
    /\ proxy = Listening("direct")
    /\ store = RequestStore(DefaultMaxSize)
    /\ clock = 0
    /\ storeOps = 0

InitRelay == RelayInit /\ StreamIdle /\ ReadsIdle /\ AuxIdle

SpecRelay == InitRelay /\ [][RelayNext]_allVars

ObservedNext ==
    \/ Subscribe
          /\ UNCHANGED <<vars, splits, proxy, config, hdr, failure, xlate, moreVars>>
    \/ Unsubscribe
          /\ UNCHANGED <<vars, splits, proxy, config, hdr, failure, xlate, moreVars>>
    \/ PostMessages(FALSE) /\ Publish(FALSE)
          /\ UNCHANGED <<vars, splits, clock, storeOps, config, hdr, failure, xlate, moreVars>>
    \/ \E status \in UpstreamStatuses, throws \in BOOLEAN :
          ObservedDirectReply(status, throws)
              /\ UNCHANGED <<vars, splits, clock, storeOps, config, hdr, failure, xlate, moreVars>>
    \/ \E kind \in Failures \cup {"internal"} :
          DirectFail(kind) /\ Publish(FALSE)
              /\ UNCHANGED <<vars, splits, clock, storeOps, config, hdr, failure, xlate, moreVars>>
    \/ \E status \in UpstreamStatuses, throws \in BOOLEAN :
          ObservedXlateReply(status, throws)
              /\ UNCHANGED <<vars, splits, clock, storeOps, config, hdr, failure, xlate, moreVars>>
    \/ XlateFail /\ Publish(FALSE)
          /\ UNCHANGED <<vars, splits, clock, storeOps, config, hdr, failure, xlate, moreVars>>
    \/ ClientClose /\ sink' = sink
          /\ UNCHANGED <<vars, splits, clock, storeOps, config, hdr, failure, xlate, moreVars>>

InitObserved ==
    /\ ProxyInit /\ StreamIdle /\ ReadsIdle
    /\ SinkIdle /\ ConfigIdle /\ HeaderIdle /\ FailureIdle /\ TranslateIdle
    /\ MoreIdle

SpecObserved == InitObserved /\ [][ObservedNext]_allVars

LiveNext ==
    \/ \E u \in LiveUpdates :
          LiveUpdate(u) /\ UNCHANGED <<vars, splits, storeVars, proxy, sink, config, hdr, failure, xlate, query, conv>>
    \/ LivePost /\ UNCHANGED <<vars, splits, storeVars, proxy, sink, config, hdr, failure, xlate, query, conv>>

InitLive ==
    /\ LiveInit /\ StreamIdle /\ ReadsIdle /\ StoreIdle /\ ProxyIdle
    /\ SinkIdle /\ ConfigIdle /\ HeaderIdle /\ FailureIdle /\ TranslateIdle
    /\ QueryIdle /\ ConvertIdle

SpecLive == InitLive /\ [][LiveNext]_allVars

ConvertNext ==
    \/ CleanSchema /\ UNCHANGED <<vars, splits, storeVars, proxy, sink, config, hdr, failure, xlate, query, live>>
    \/ ConvertReply /\ UNCHANGED <<vars, splits, storeVars, proxy, sink, config, hdr, failure, xlate, query, live>>

InitConvert ==
    /\ ConvertInit /\ StreamIdle /\ ReadsIdle /\ StoreIdle /\ ProxyIdle
    /\ SinkIdle /\ ConfigIdle /\ HeaderIdle /\ FailureIdle /\ TranslateIdle
    /\ QueryIdle /\ LiveIdle

SpecConvert == InitConvert /\ [][ConvertNext]_allVars

----------------------------------------------------------------------------
\* Reading the history: what the input carried and what was written.

IsFrame(l) == l.kind = "frame"
HasToolCalls(l) == IsFrame(l) /\ l.tool_calls # <<>>
CarriesDelta(l) ==
    IsFrame(l) /\ (l.tool_calls # <<>> \/ l.content # <<>> \/ l.reasoning # <<>>)
MetadataOnly(l) == IsFrame(l) /\ ~CarriesDelta(l)

LastLineIs(k) == input # <<>> /\ input[Len(input)].kind = k
Completed == LastLineIs("done")
FrameSeen(inp) == \E k \in DOMAIN inp : IsFrame(inp[k])

\* The entries of delta.tool_calls of every frame read.
ToolCallsSeen(inp) ==
    UNION { { inp[k].tool_calls[1][j] : j \in DOMAIN inp[k].tool_calls[1] } :
            k \in { n \in DOMAIN inp : HasToolCalls(inp[n]) } }
ObservedIndices(inp) == { tc.index : tc \in ToolCallsSeen(inp) }
ObservedArgs(inp, i) ==
    { tc.arguments : tc \in { t \in ToolCallsSeen(inp) : t.index = i } }

IsPrefix(a, b) == Len(a) <= Len(b) /\ SubSeq(b, 1, Len(a)) = a
Cumulative(S) == \A a \in S, b \in S : IsPrefix(a, b) \/ IsPrefix(b, a)
LongestOf(S) == { a \in S : \A b \in S : Len(b) <= Len(a) }

EventsOf(evs, ty) == { k \in DOMAIN evs : evs[k].type = ty }
StartsOf(evs, i) ==
    { k \in EventsOf(evs, "content_block_start") : evs[k].index = i }
StopsOf(evs, i) ==
    { k \in EventsOf(evs, "content_block_stop") : evs[k].index = i }
DeltasOf(evs, i) ==
    { k \in EventsOf(evs, "content_block_delta") : evs[k].index = i }
BlockTypes == {"content_block_start", "content_block_delta", "content_block_stop"}
TerminationTypes == {"content_block_stop", "message_delta", "message_stop"}
BlockEvents(evs) == { k \in DOMAIN evs : evs[k].type \in BlockTypes }
TerminationEvents(evs) == { k \in DOMAIN evs : evs[k].type \in TerminationTypes }
OpenedIndices(evs) ==
    { evs[k].index : k \in EventsOf(evs, "content_block_start") }

\* Concatenation of the payloads of the deltas of kind d whose index is in I.
RECURSIVE DeltaConcat(_, _, _)
DeltaConcat(evs, d, I) ==
    IF evs = <<>> THEN <<>>
    ELSE LET e == Head(evs)
             mine == /\ e.type = "content_block_delta"
                     /\ e.delta = d
                     /\ e.index \in I
         IN  (IF mine THEN e.text ELSE <<>>) \o DeltaConcat(Tail(evs), d, I)

RECURSIVE ContentConcat(_)
ContentConcat(inp) ==
    IF inp = <<>> THEN <<>>
    ELSE (IF IsFrame(Head(inp)) THEN Head(inp).content ELSE <<>>)
           \o ContentConcat(Tail(inp))

\* The last non-null finish_reason of the frames read, "null" when none.
RECURSIVE LastFinishReason(_)
LastFinishReason(inp) ==
    IF inp = <<>> THEN "null"
    ELSE LET l == inp[Len(inp)]
         IN  IF IsFrame(l) /\ l.finish_reason # "null" THEN l.finish_reason
             ELSE LastFinishReason(SubSeq(inp, 1, Len(inp) - 1))

PreambleWritten(evs) ==
    Len(evs) >= 2 /\ evs[1].type = "message_start" /\ evs[2].type = "ping"

----------------------------------------------------------------------------
\* C1: when the stream has been closed by [DONE], every tool-call index i
\* seen in the input has exactly one content_block_start(i) and exactly one
\* content_block_stop(i) among the events written.
C1_OneStartOneStopPerToolIndex ==
    Completed =>
        \A i \in ObservedIndices(input) :
            /\ Cardinality(StartsOf(out, i)) = 1
            /\ Cardinality(StopsOf(out, i)) = 1

\* C2: a response that wrote any event wrote exactly one message_start, as
\* its first event, and nothing after message_stop.
C2_MessageStartFirstMessageStopLast ==
    out # <<>> =>
        /\ out[1].type = "message_start"
        /\ Cardinality(EventsOf(out, "message_start")) = 1
        /\ \A k \in EventsOf(out, "message_stop") : k = Len(out)

\* C3: each block index is opened at most once, every delta of index i lies
\* after the start of i and before the stop of i, and each index is stopped
\* at most once.
C3_BlockGrammar ==
    \A i \in OpenedIndices(out) \cup ObservedIndices(input) \cup {0} :
        /\ Cardinality(StartsOf(out, i)) <= 1
        /\ Cardinality(StopsOf(out, i)) <= 1
        /\ \A k \in DeltasOf(out, i) :
              /\ \E s \in StartsOf(out, i) : s < k
              /\ \A s \in StopsOf(out, i) : k < s

\* C4 (as stated): for every tool index i, the concatenation of the
\* partial_json of its input_json_delta events is the longest arguments
\* string seen for i.
C4_ArgsConcatIsLongestSeen ==
    \A i \in ObservedIndices(input) :
        DeltaConcat(out, "input_json_delta", {i}) \in LongestOf(ObservedArgs(input, i))

\* C4 (amended): the same, for every tool index whose arguments strings are
\* cumulative, each one a prefix of every longer one.
C4_ArgsConcatWhenCumulative ==
    \A i \in ObservedIndices(input) :
        Cumulative(ObservedArgs(input, i)) =>
            DeltaConcat(out, "input_json_delta", {i})
                \in LongestOf(ObservedArgs(input, i))

\* C4 witness: index 0 was extended from "a" to "ab" in two deltas.
C4_Witness ==
    /\ ObservedArgs(input, 0) = { <<"a">>, <<"a", "b">> }
    /\ Cardinality(DeltasOf(out, 0)) = 2
    /\ DeltaConcat(out, "input_json_delta", {0}) = <<"a", "b">>

\* C5: the concatenation of the text of every text_delta written equals the
\* concatenation of the delta.content of every frame read, in order.
C5_TextConcatEqualsContent ==
    DeltaConcat(out, "text_delta", OpenedIndices(out)) = ContentConcat(input)

\* C6: at [DONE] every block that was opened, text or tool_use, is stopped
\* before message_delta.
C6_StopForEveryOpenedBlock ==
    Completed =>
        \A i \in OpenedIndices(out) :
            \E s \in StopsOf(out, i) :
                \A m \in EventsOf(out, "message_delta") : s < m

\* C7: the stop_reason written at [DONE] is tool_use when a tool call was
\* seen, and otherwise the mapping of the last finish_reason of the stream.
C7_StopReasonFromFinishReason ==
    Completed =>
        \A m \in EventsOf(out, "message_delta") :
            out[m].stop_reason =
                IF ToolCallsSeen(input) # {} THEN "tool_use"
                ELSE mapStopReason(LastFinishReason(input))

\* C8 (as stated): the preamble is written exactly when a frame carrying
\* content, tool_calls or reasoning has been read, and before any block
\* event; a frame that carries none of them writes nothing.
C8_PreambleOnlyOnContentFrame ==
    /\ PreambleWritten(out) <=> \E k \in DOMAIN input : CarriesDelta(input[k])
    /\ \A k \in BlockEvents(out) : PreambleWritten(out) /\ k > 2

\* C8 (amended): the preamble is written when the first parsed frame without
\* an error member is read, whatever it carries, and before any block event;
\* a metadata-only frame writes exactly the preamble when it is that first
\* frame and nothing otherwise.
C8_PreambleOnFirstFrame ==
    /\ [](/\ PreambleWritten(out) <=> FrameSeen(input)
          /\ Cardinality(EventsOf(out, "message_start")) <= 1
          /\ Cardinality(EventsOf(out, "ping")) <= 1
          /\ \A k \in BlockEvents(out) : PreambleWritten(out) /\ k > 2)
    /\ [][\A f \in DataFrames :
            (MetadataOnly(f) /\ input' = Append(input, f)) =>
                out' = out \o (IF FrameSeen(input) THEN <<>>
                               ELSE <<MessageStart, Ping>>)]_vars

\* C8 witness: a frame carrying only usage came first and wrote the preamble,
\* a second metadata-only frame wrote nothing.
C8_Witness ==
    /\ Len(input) = 2
    /\ MetadataOnly(input[1]) /\ input[1].usage # <<>>
    /\ MetadataOnly(input[2])
    /\ out = <<MessageStart, Ping>>

\* C9: stop, message_delta and message_stop events are written only by the
\* step that reads [DONE]; a frame with a non-null finish_reason writes none
\* of them and leaves the handler reading, and a content delta that arrives
\* after such a frame is written as a text_delta.
C9_TerminationOnlyAtDone ==
    /\ [](TerminationEvents(out) # {} => Completed)
    /\ [][\A f \in DataFrames :
            (input' = Append(input, f) /\ f.choices /\ f.finish_reason # "null")
                => (pc' = "reading" /\ TerminationEvents(out') = {})]_vars
    /\ [][\A f \in DataFrames :
            ( /\ input' = Append(input, f)
              /\ LastFinishReason(input) # "null"
              /\ f.choices /\ f.tool_calls = <<>> /\ f.content # <<>> )
                => /\ Len(out') > Len(out)
                   /\ out'[Len(out')] = BlockDelta(0, "text_delta", f.content)]_vars

\* C9 witness: a content delta was translated after a finish_reason frame,
\* and [DONE] then closed the stream.
C9_Witness ==
    /\ Len(input) = 3
    /\ IsFrame(input[1]) /\ input[1].finish_reason = "stop"
    /\ IsFrame(input[2]) /\ input[2].content = <<"A">> /\ input[2].tool_calls = <<>>
    /\ Completed
    /\ DeltaConcat(out, "text_delta", {0}) = <<"A">>
    /\ out[Len(out)].type = "message_stop"

\* C10: once an error frame is read: if no frame came before it (preamble not
\* sent) the request fails with an error reply carrying the upstream message
\* and no event is written; otherwise exactly one error event of type
\* api_error with that message is written and it is the last event.
C10_ErrorFrame ==
    /\ LastLineIs("error") =>
         IF ~FrameSeen(input)
         THEN /\ pc = "failed"
              /\ reply = <<[status |-> 500, error |-> ErrorLine.message]>>
              /\ out = <<>>
         ELSE /\ pc = "ended"
              /\ reply = <<>>
              /\ EventsOf(out, "error") = {Len(out)}
              /\ out[Len(out)].error_type = "api_error"
              /\ out[Len(out)].message = ErrorLine.message
    /\ EventsOf(out, "error") # {} => LastLineIs("error")

\* C10 witness: the error frame arrived after a text delta had been written.
C10_Witness ==
    /\ LastLineIs("error")
    /\ Len(out) = 5
    /\ out[4].type = "content_block_delta"
    /\ out[5].type = "error"
    /\ pc = "ended"

----------------------------------------------------------------------------
\* The observation store.

Pending(r) == r.status = "pending"
PendingIn(requests) == {i \in 1..Len(requests) : Pending(requests[i])}
CompletedIn(requests) == {i \in 1..Len(requests) : ~Pending(requests[i])}

\* C11: whatever operations were applied to a store of capacity N >= 1, it
\* never holds more than N records.
C11_SizeWithinCapacity ==
    /\ store.maxSize >= 1
    /\ Len(store.requests) <= store.maxSize

\* C11 witness: a store of capacity 2 that is full after three requests were
\* started, one of them ended and one marked as failed.
C11_Witness ==
    /\ store.maxSize = 2
    /\ Len(store.requests) = 2
    /\ store.issued = 3
    /\ store.stats.successCount = 1
    /\ store.stats.errorCount = 1

\* The number of records the eviction is said to remove.
ClaimedCount(cap) ==
    IF cap < 10 THEN 1
    ELSE CHOOSE n \in 1..cap : 10 * n <= cap /\ cap < 10 * (n + 1)

\* a leaves before b: completed before pending, and the older first within
\* each group.
LeavesBefore(a, b) ==
    \/ ~Pending(a) /\ Pending(b)
    \/ Pending(a) = Pending(b) /\ a.timestamp < b.timestamp

\* C12: when startRequest finds the store at capacity, max(1, floor(N/10))
\* records leave, no surviving record being one that should have left before
\* an evicted one (completed before pending, oldest first); a pending record
\* leaves only when fewer completed records than that count exist; the other
\* records stay in order and the new record is the last of the store.
C12_EvictionOrder ==
    [][(store'.issued # store.issued /\ Len(store.requests) >= store.maxSize) =>
        LET old == store.requests
            new == store'.requests
            n == ClaimedCount(store.maxSize)
            gone == Ids(old) \ Ids(new)
            victims == {i \in 1..Len(old) : old[i].id \in gone}
            stay == (1..Len(old)) \ victims
        IN  /\ Cardinality(victims) = n
            /\ \A v \in victims, k \in stay : ~LeavesBefore(old[k], old[v])
            /\ (\E v \in victims : Pending(old[v]))
                  => Cardinality(CompletedIn(old)) < n
            /\ new = Without(old, gone)
                       \o <<requestData(store'.issued, clock')>>
       ]_storeVars

\* C12 witness: capacity 20, twenty requests of which only the third was
\* ended; the next startRequest removed that one and the oldest pending
\* request, and added the new one.
C12_Witness ==
    /\ store.maxSize = 20
    /\ store.issued = 21
    /\ Ids(store.requests) = (2..21) \ {3}
    /\ \A i \in 1..Len(store.requests) : Pending(store.requests[i])

----------------------------------------------------------------------------
\* The exchange.

\* The record of the exchange (the store of the exchange never evicts it).
Record == store.requests[Get(store.requests, proxy.monitorId)]
Started == proxy.monitorId # 0
Is2xx(status) == status >= 200 /\ status < 300

\* C14: once the upstream exchange is over and the handler is through (the
\* upstream answered 2xx or not, its stream ended, or an error occurred), the
\* record of the request has left pending, in either mode.
C14_FinishedExchangeLeavesPending ==
    (Started /\ proxy.px \in {"done", "hung"}) => ~Pending(Record)

\* C15: once the client has closed the connection during a streaming
\* exchange, the upstream request is cancelled, nothing has been written to
\* the closed connection, and the record is success when at least one chunk
\* had been received and error when none had.
C15_ClientCloseFinalizes ==
    proxy.closedIn \in {"relay", "reading"} =>
        /\ proxy.upstream = "destroyed"
        /\ proxy.lateWrites = 0
        /\ Record.status =
              IF Record.chunksCount + proxy.chunksRead > 0
              THEN "success" ELSE "error"

\* C16: the translated streaming handler is never left with an error caught
\* after the headers were sent, no error event written and the response
\* still open.
C16_ErrorAfterHeadersEndsResponse ==
    pc # "hung"

\* C17: when the upstream answered with a status outside 2xx, the status the
\* client was sent is that status, streaming or not, in either mode.
C17_UpstreamStatusPassedOn ==
    (proxy.upstreamStatus # <<>> /\ ~Is2xx(proxy.upstreamStatus[1])
       /\ proxy.clientStatus # <<>>)
      => proxy.clientStatus = proxy.upstreamStatus

\* C18: once the upstream request has timed out, it is cancelled, the client
\* was sent an error (status 504, or an error event on a stream) and the
\* record is marked as error.
C18_TimeoutSurfaces ==
    proxy.timedOut =>
        /\ proxy.upstream = "destroyed"
        /\ proxy.clientStatus = <<504>> \/ proxy.errorEvents > 0
        /\ Record.status = "error"

\* C19: a line that a read cut in two is translated exactly as the same line
\* brought whole by one read: same events written, same state of the loop.
C19_SplitLineTranslatedAsWhole ==
    [][splits' # splits => WholeLine(input'[Len(input')])]_<<vars, splits>>

\* The frames of an SSE stream: the groups of lines that a blank line ends.
RECURSIVE Group(_, _)
Group(lines, frame) ==
    IF lines = <<>> THEN <<>>
    ELSE IF Head(lines) # <<>> THEN Group(Tail(lines), Append(frame, Head(lines)))
    ELSE (IF frame = <<>> THEN <<>> ELSE <<frame>>) \o Group(Tail(lines), <<>>)

Frames(bytes) ==
    LET lines == Split(bytes)
    IN  Group(SubSeq(lines, 1, Len(lines) - 1), <<>>)

NonBlank(lines) == SelectSeq(lines, LAMBDA l : ~IsBlank(l))

\* A direct stream answered with 200 whose client is still there.
Relaying ==
    /\ proxy.proxyMode = "direct" /\ proxy.stream
    /\ proxy.upstreamStatus = <<200>>
    /\ proxy.client = "connected"

\* The body is a sequence of whole frames: it ends with a blank line.
WholeFrames(bytes) ==
    /\ Len(bytes) >= 2
    /\ bytes[Len(bytes) - 1] = "\n"
    /\ bytes[Len(bytes)] = "\n"

----------------------------------------------------------------------------
\* Store events and their subscriber.

RECURSIVE IsSubsequence(_, _)
\* d is e with some elements left out, the others in the same order.
IsSubsequence(d, e) ==
    IF d = <<>> THEN TRUE
    ELSE IF e = <<>> THEN FALSE
    ELSE IF Head(d) = Head(e) THEN IsSubsequence(Tail(d), Tail(e))
    ELSE IsSubsequence(d, Tail(e))

\* The positions of the events the connection was handed.
Handed == 1..Len(sink.delivered)

\* Before position j the connection was handed the requestStart of the
\* record of the event at j.
StartHandedBefore(j) ==
    \E i \in 1..(j - 1) :
        /\ sink.delivered[i].type = "requestStart"
        /\ sink.delivered[i].id = sink.delivered[j].id

C22_MutatorsNeverRaise ==
    ~sink.raised


----------------------------------------------------------------------------
\* Configuration.

\* C23: the configuration written to disk contains no API key.
C23_NoKeyOnDisk ==
    config.file # <<>> => config.file[1].apiKey = ""


----------------------------------------------------------------------------
\* Credentials in the logs and in the record.

\* Line contains the characters of v, in a row.
Contains(line, v) ==
    \E i \in 1..(Len(line) - Len(v) + 1) : SubSeq(line, i, i + Len(v) - 1) = v

\* C24: no line logged while a /v1/messages request is handled contains the
\* full value of its x-api-key or authorization header (for values longer
\* than the 10 characters the mask shows).
C24_KeysMaskedInLogs ==
    (/\ hdr.phase = "handled"
     /\ Sensitive(hdr.name)
     /\ Len(hdr.value) > 10)
        => \A i \in 1..Len(hdr.logs) : ~Contains(hdr.logs[i], hdr.value)

----------------------------------------------------------------------------
\* Failure replies.

\* The error string of the reply of the failed request.
Told == failure.reply[1].error

\* C26: the error string of every pre-stream failure reply of translated
\* mode holds no sk-... key and no Bearer token of 20 or more characters and
\* is at most 200 characters long.
C26_FailureReplySanitized ==
    failure.reply # <<>> =>
        /\ \A i \in 1..Len(Told) : ~SkAt(Told, i) /\ ~BearerAt(Told, i)
        /\ Len(Told) <= KeptLength


----------------------------------------------------------------------------
\* The translated request.

\* The request body and the upstream request built from it.
Body == xlate.payload

Sent == xlate.sent[1]

\* The system messages the system field stands for: the string, or the
\* non-empty texts of the blocks, in order.
ClaimedSystem ==
    IF Body.system = <<>> THEN <<>>
    ELSE IF Body.system[1].kind = "string"
    THEN (IF Body.system[1].text = <<>> THEN <<>> ELSE <<Body.system[1].text>>)
    ELSE SelectSeq([i \in 1..Len(Body.system[1].blocks) |->
                       TextOf(Body.system[1].blocks[i])],
                   LAMBDA t : t # <<>>)

\* C27: the translated messages begin with the system messages of the
\* system field (the string, or one per block with non-empty text, in order)
\* and hold no other system message.
C27_SystemMessagesFirst ==
    xlate.sent # <<>> =>
        /\ Len(Sent.messages) >= Len(ClaimedSystem)
        /\ \A i \in 1..Len(ClaimedSystem) :
              /\ Sent.messages[i].role = "system"
              /\ Sent.messages[i].content = <<ClaimedSystem[i]>>
        /\ \A i \in (Len(ClaimedSystem) + 1)..Len(Sent.messages) :
              Sent.messages[i].role # "system"

\* The tool messages of a message: one per tool_result block that has a
\* tool_use_id.
ClaimedToolMessages(msg) ==
    SelectSeq(ToolMessages(msg), LAMBDA t : t.tool_call_id # <<>>)

RECURSIVE ClaimedTranslation(_)
ClaimedTranslation(messages) ==
    IF messages = <<>> THEN <<>>
    ELSE MainMessage(Head(messages)) \o ClaimedToolMessages(Head(messages))
             \o ClaimedTranslation(Tail(messages))

\* C28: after the system messages, the translated messages are, for each
\* input message in turn, its main message followed by one role=tool
\* message per tool_result block that has a tool_use_id, in block order.
C28_ToolResultsFollow ==
    xlate.sent # <<>> =>
        SubSeq(Sent.messages, Len(SystemMessages(Body.system)) + 1,
               Len(Sent.messages))
            = ClaimedTranslation(Body.messages)

\* C29: the translated request has the input's max_tokens, its temperature
\* or 1, its top_p when it has one, its stop_sequences as stop, and its
\* stream flag.
C29_SettingsCarried ==
    xlate.sent # <<>> =>
        /\ Sent.max_tokens = Body.settings.max_tokens
        /\ Sent.temperature = (IF Body.settings.temperature = <<>> THEN <<1>>
                               ELSE Body.settings.temperature)
        /\ Sent.top_p = Body.settings.top_p
        /\ Sent.stop = Body.settings.stop_sequences
        /\ Body.settings.stream # <<>> => Sent.stream = Body.settings.stream


----------------------------------------------------------------------------
\* Model mapping.

\* C30: the model of a translated request is the upstream model configured,
\* at the time of the request, for the family its name contains, the
\* configured default when the request names no model, and the name itself
\* otherwise.
C30_ModelMappedAsConfigured ==
    config.mapped # <<>> =>
        config.mapped[1].model
            = mapModel(ConverterWith(config.mapped[1].configured),
                       config.mapped[1].name)

\* ---------------------------------------------------------------------
\* C39: endRequest, addStreamChunk, setMergedContent and setError called
\* with an id that is not in the store (never issued, evicted, or removed
\* by clear) leave every record and every statistic unchanged and emit no
\* event: such a step leaves the whole store as it was.
UnknownIds == SomeId \ Ids(store.requests)
C39_UnknownIdIsNoOp ==
    [][\A id \in UnknownIds :
          (\/ \E status \in Statuses, tick \in {0, 1} :
                 EndRequest(id, status, tick)
           \/ AddStreamChunk(id)
           \/ SetMergedContent(id)
           \/ SetError(id))
          => store' = store]_allVars
\* Three operations on a store of capacity one: two requests started, the
\* first evicted, and one more operation that left no trace; it named the
\* evicted id or the id never issued, the second record being untouched.
C39_Witness ==
    /\ storeOps = 3 /\ store.issued = 2
    /\ Len(store.requests) = 1 /\ Len(store.emitted) = 2
    /\ store.requests[1] = requestData(2, store.requests[1].startTime)
    /\ store.stats.successCount + store.stats.errorCount = 0

\* ---------------------------------------------------------------------
\* C35: clear() is idempotent: whatever the store held, requests in flight
\* included, a clear leaves no record, a getStats() that follows returns
\* zero for every counter, and one more clear leaves the records, the
\* counters and the id sequence exactly as the first left them.
StatsOfEmpty ==
    [totalRequests |-> 0, successCount |-> 0, errorCount |-> 0,
     successRate |-> [hundredths |-> 0, decimals |-> 0, unit |-> "%"],
     avgDuration |-> <<0, "ms">>, activeRequests |-> 0]
Held(S) == [requests |-> S.requests, stats |-> S.stats,
            maxSize |-> S.maxSize, issued |-> S.issued]
C35_ClearIdempotent ==
    [][Clear => /\ store'.requests = <<>>
                /\ getStats(store') = StatsOfEmpty
                /\ Held(clear(store')) = Held(store')]_allVars
\* A request started and still pending, then clear twice in a row.
C35_Witness ==
    LET n == Len(store.emitted)
    IN  /\ n >= 3
        /\ store.emitted[n].type = "clear"
        /\ store.emitted[n - 1].type = "clear"
        /\ store.emitted[n - 2].type = "requestStart"
        /\ store.requests = <<>>
        /\ getStats(store) = StatsOfEmpty

\* ---------------------------------------------------------------------
\* C34: query(filters) returns the records matching the status, model and
\* timeRange filters sorted newest-first (if a precedes b in a page then
\* a.timestamp >= b.timestamp); data is the slice [(page-1)*limit,
\* page*limit) of that order (defaults page 1, limit 50) and total is the
\* number of matching records, so successive pages partition the matching
\* set.
NewestFirst(rs) ==
    \A i, j \in 1..Len(rs) : i < j => rs[i].timestamp >= rs[j].timestamp
MatchingIds(S, filters, now) ==
    {r.id : r \in {S.requests[i] : i \in {k \in 1..Len(S.requests) :
                                            Matches(S.requests[k], filters, now)}}}
\* The matching records in the order the pages are cut from.
Ordered(S, filters, now) ==
    sortNewestFirst(SelectSeq(S.requests, LAMBDA r : Matches(r, filters, now)))
C36_ExportAndStatsCoverEveryMatch ==
    LET matching == MatchingIds(query.store, query.filters, query.now)
    IN  /\ query.kind = "export" =>
              {query.reply[1].requests[i].id :
                  i \in 1..Len(query.reply[1].requests)} = matching
        /\ (query.kind = "stats" /\ query.filters # NoFilters) =>
              query.reply[1].totalRequests = Cardinality(matching)

\* ---------------------------------------------------------------------
\* C38: in direct streaming mode, under every interleaving of the upstream
\* data, end and error events, the client close event and the response
\* error event, the client response is ended at most once and nothing is
\* written to it after it was ended.
C38_EndedOnceThenSilent ==
    [][/\ proxy'.resEnds <= 1
       /\ proxy.resEnds >= 1 =>
              /\ proxy'.clientBytes = proxy.clientBytes
              /\ proxy'.errorEvents = proxy.errorEvents
              /\ proxy'.clientStatus = proxy.clientStatus]_allVars
\* The body ended at once and the response with it; a line of data and one
\* more end were delivered after that and nothing of them was written.
C38_Witness ==
    /\ proxy.px = "done" /\ proxy.resEnds = 1
    /\ proxy.client = "connected" /\ ~proxy.streamDestroyed
    /\ \E i \in 2..Len(proxy.upstreamBytes) : proxy.upstreamBytes[i] = "\n"
    /\ proxy.upstreamBytes[1] # "\n"
    /\ proxy.clientBytes = <<>> /\ proxy.errorEvents = 0

\* ---------------------------------------------------------------------
\* C40: each record is counted at most once in the outcome statistics:
\* after any sequence of store operations issued by the proxy handlers,
\* successCount + errorCount <= totalRequests.
C40_CountedAtMostOnce ==
    store.stats.successCount + store.stats.errorCount
        <= store.stats.totalRequests

\* ---------------------------------------------------------------------
\* C37: configuration changes take effect immediately without restart:
\* after any accepted configuration update, the next /v1/messages request
\* is routed by the new proxy mode and uses the new upstream base URL and
\* timeout.
C37_NextRequestUsesNewConfiguration ==
    live.sent # <<>> =>
        /\ live.sent[1].mode = live.config.proxyMode
        /\ live.sent[1].url = IF live.config.proxyMode = "openrouter"
                              THEN live.config.routerUrl
                              ELSE live.config.baseUrl
        /\ live.config.proxyMode = "anthropic" =>
              live.sent[1].timeout = <<live.config.timeout>>

----------------------------------------------------------------------------
\* Conversions.

\* The schema with the format key removed from every string node of format
\* uri, and nothing else changed.
RECURSIVE WithoutUriFormats(_)
WithoutUriFormats(schema) ==
    LET kept == IF UriString(schema) THEN DOMAIN schema \ {"format"}
                ELSE DOMAIN schema
    IN  [k \in kept |->
            IF k = "properties"
            THEN [p \in DOMAIN schema[k] |-> WithoutUriFormats(schema[k][p])]
            ELSE IF k \in {"anyOf", "allOf", "oneOf"}
            THEN [i \in DOMAIN schema[k] |-> WithoutUriFormats(schema[k][i])]
            ELSE IF k \in {"items", "additionalProperties"}
            THEN WithoutUriFormats(schema[k])
            ELSE schema[k]]

\* C31: the schema cleaner is a fixpoint: cleaning a cleaned schema changes
\* nothing, and the only alteration it makes is removing the format key
\* from nodes with type = string and format = uri.
C31_CleanerIsFixpoint ==
    (conv.kind = "schema" /\ conv.done) =>
        /\ removeUriFormat(conv.output) = conv.output
        /\ conv.output = WithoutUriFormats(conv.input)

\* C32: the translation that is not streaming maps finish_reason to
\* stop_reason by the table stop -> end_turn, length -> max_tokens,
\* tool_calls and function_call -> tool_use, content_filter and safety ->
\* stop_sequence, anything else or null -> end_turn.
ClaimedStopReason(finishReason) ==
    CASE finishReason = <<"stop">> -> "end_turn"
      [] finishReason = <<"length">> -> "max_tokens"
      [] finishReason \in {<<"tool_calls">>, <<"function_call">>} -> "tool_use"
      [] finishReason \in {<<"content_filter">>, <<"safety">>} -> "stop_sequence"
      [] OTHER -> "end_turn"
C32_StopReasonTable ==
    (conv.kind = "reply" /\ conv.done /\ ~conv.output.threw) =>
        conv.output.message[1].stop_reason
            = ClaimedStopReason(conv.input.finish_reason)

\* String.prototype.trim() of a one-piece string of blanks and letters
Trim(s) == IF s \in {"", " "} THEN "" ELSE IF s = " hi" THEN "hi" ELSE s

\* C33: the content of a translated reply that is not streamed has a text
\* block only when message.content is non-empty after trimming, followed by
\* one tool_use block per tool call in order, with input equal to the
\* parsed arguments.
C33_ReplyContentBlocks ==
    (conv.kind = "reply" /\ conv.done /\ ~conv.output.threw) =>
        LET data == conv.input
            calls == IF data.tool_calls = <<>> THEN <<>> ELSE data.tool_calls[1]
            text == IF data.content # <<>> /\ Trim(data.content[1]) # ""
                    THEN <<[type |-> "text", text |-> data.content]>>
                    ELSE <<>>
        IN  conv.output.message[1].content
                = text \o [i \in 1..Len(calls) |->
                              [type |-> "tool_use", id |-> calls[i].id,
                               name |-> calls[i].name,
                               input |-> JSONparse(calls[i].arguments).value]]

====
